---- MODULE Spec2Model ----
(***************************************************************************)
(* Model of the compute-hardware RWA backend service (ComputeService):     *)
(* the unsigned-transaction builders, the proposal classification, the     *)
(* symbol derivation of createListing and the listing aggregator.          *)
(*                                                                         *)
(* Strings are sequences of character codes where the code inspects their  *)
(* characters (names, symbols, addresses); messages are sequences of       *)
(* string fragments, split where the code searches or interpolates them.   *)
(***************************************************************************)
EXTENDS Integers, Sequences, FiniteSets, TLC

VARIABLES
    chain,   \* the ledger as the service reads it: one DAO, its token, the marketplace
    resp,    \* the response of the builder request being served
    sym,     \* createListing's symbol derivation: the hardware name and the symbols
    cls,     \* getProposalStatus and getCurrentProposal: what is asked and the answer
    mkt,     \* the marketplace registry and each DAO's on-chain and off-chain data
    agg,     \* getListing: the request in progress and its result
    money,   \* an ether amount on its way from request text to wei to display text
    run      \* builder requests served concurrently: what each has read so far

vars == <<chain, resp, sym, cls, mkt, agg, money, run>>

(***************************************************************************)
(* Bounds of the model.                                                    *)
(***************************************************************************)
MaxSupply == 2      \* token total supply; balances, allowances, amounts range to it
MaxNameLen == 6     \* longest hardware name
MaxScale == 7       \* largest percentage scale explored exhaustively
MaxDaos == 3        \* most DAO addresses in the registry

(***************************************************************************)
(* Text helpers.                                                           *)
(***************************************************************************)
\* String.prototype.includes on a message, for a needle that is one fragment.
Includes(msg, frag) == \E i \in DOMAIN msg : msg[i] = frag

IsUpper(c) == c \in 65..90
IsLower(c) == c \in 97..122
IsDigit(c) == c \in 48..57

\* String.prototype.toLowerCase on the characters addresses are made of.
ToLowerChar(c) == IF IsUpper(c) THEN c + 32 ELSE c
toLowerCase(s) == [i \in DOMAIN s |-> ToLowerChar(s[i])]

(***************************************************************************)
(* Errors: http-errors objects (no `code`), and the errors ethers raises   *)
(* for a failed remote call (a `code`, and a message with the reason).     *)
(***************************************************************************)
NoError == [kind |-> "none", status |-> 0, code |-> "", message |-> <<>>]
HttpError(status, msg) == [kind |-> "http", status |-> status, code |-> "", message |-> msg]
BadRequest(msg) == HttpError(400, msg)
InternalServerError(msg) == HttpError(500, msg)
RpcError(code, msg) == [kind |-> "rpc", status |-> 0, code |-> code, message |-> msg]

NetworkError == RpcError("NETWORK_ERROR", <<"could not detect network">>)
CallException == RpcError("CALL_EXCEPTION", <<"call revert exception">>)
AlreadyVotedRevert == RpcError("CALL_EXCEPTION", <<"call revert exception: ", "Already voted">>)

\* What a remote call can fail with when the endpoint or the contract misbehaves.
RemoteFailures == {NetworkError, CallException}

(***************************************************************************)
(* Addresses.  ethers returns checksummed (mixed-case) addresses; a caller *)
(* may send its own address in any case.                                   *)
(***************************************************************************)
NoAddress == <<>>                 \* a missing or empty request field
AddressZero == <<48, 120, 48, 48>>    \* "0x00"
UserAddr == <<48, 120, 97, 49>>       \* "0xa1", the caller, as it writes itself
UserChecksum == <<48, 120, 65, 49>>   \* "0xA1", the caller, as the ledger returns it
OtherAddr == <<48, 120, 66, 50>>      \* "0xB2", somebody else
DaoAddr == <<48, 120, 68, 52>>        \* "0xD4", the DAO of the request
TokenAddr == <<48, 120, 69, 53>>      \* "0xE5", the DAO's TOKEN_CONTRACT
MarketplaceAddr == <<48, 120, 70, 54>> \* "0xF6", Config.contractAddress[chain].marketplace

(***************************************************************************)
(* The ledger, as one request reads it.                                    *)
(***************************************************************************)
Supplies == 1..MaxSupply
Amounts == 0..MaxSupply
Prices == {1, 2}                  \* wei
Nonces == {0, 1}
Scales == {3, 100}               \* dao.PERCENTAGE_DECIMALS()

\* ChainFields documents the ledger record: what each field is read from.
ChainFields ==
    [ supply : Supplies,          \* token.totalSupply()
      bal : Amounts,              \* token.balanceOf(user)
      allowance : Amounts,        \* token.allowance(user, dao)
      avail : Amounts,            \* dao.getAvailableTokensForSale()
      tokenPrice : Prices,        \* dao.tokenPrice()
      rentalPrice : Prices,       \* dao.rentalPrice()
      proposalActive : BOOLEAN,   \* dao.currentProposal().isActive
      voted : BOOLEAN,            \* the caller has voted on the current proposal
      percentageDecimals : Scales,  \* dao.PERCENTAGE_DECIMALS()
      tenant : {AddressZero, OtherAddr},   \* dao.currentTenant()
      owner : {UserChecksum, OtherAddr},   \* marketplace.owner()
      nonce : Nonces,             \* provider.getTransactionCount(user)
      gasPrice : {5},             \* provider.getGasPrice()
      chainId : {31337} ]         \* provider.getNetwork().chainId

BaseChain ==
    [ supply |-> MaxSupply, bal |-> 1, allowance |-> 0, avail |-> 1,
      tokenPrice |-> 1, rentalPrice |-> 2, proposalActive |-> FALSE, voted |-> FALSE,
      percentageDecimals |-> 100,
      tenant |-> AddressZero, owner |-> OtherAddr, nonce |-> 0,
      gasPrice |-> 5, chainId |-> 31337 ]

\* The ledger states explored.  Each family ranges over every combination of
\* the fields one group of handlers reads and holds the others at BaseChain.
SaleChains ==           \* buyTokens
    { [BaseChain EXCEPT !.avail = a, !.tokenPrice = p, !.nonce = n] :
        a \in Amounts, p \in Prices, n \in Nonces }
GovernanceChains ==     \* proposeNewRentalPrice, voteOnProposal
    { c \in { [BaseChain EXCEPT !.supply = s, !.bal = b, !.proposalActive = act,
                                !.voted = v, !.percentageDecimals = d,
                                !.nonce = n] :
                s \in Supplies, b \in Amounts, act \in BOOLEAN, v \in BOOLEAN,
                d \in Scales, n \in Nonces } :
        c.bal <= c.supply /\ c.avail <= c.supply /\ (c.voted => c.proposalActive) }
RentalChains ==         \* becomeTenant
    { [BaseChain EXCEPT !.tenant = t, !.rentalPrice = p, !.nonce = n] :
        t \in {AddressZero, OtherAddr}, p \in Prices, n \in Nonces }
UnlistChains ==         \* getUnlistApprovalTx, completeUnlist
    { c \in { [BaseChain EXCEPT !.supply = s, !.bal = b, !.allowance = al,
                                !.owner = o, !.nonce = n] :
                s \in Supplies, b \in Amounts, al \in Amounts,
                o \in {UserChecksum, OtherAddr}, n \in Nonces } :
        c.bal <= c.supply /\ c.avail <= c.supply }

Chains == SaleChains \cup GovernanceChains \cup RentalChains \cup UnlistChains

(***************************************************************************)
(* A handler's remote calls, in program order.  Each step is one awaited   *)
(* call: `revert` is the error the ledger state makes the call fail with,  *)
(* `check` the error the code throws itself on the value read, `ret` the   *)
(* body of an early return, `inner` marks a call wrapped in its own        *)
(* try/catch.  A fault [at, err] makes the call at position `at` fail.     *)
(***************************************************************************)
NoReturn == [returned |-> FALSE]
Step(call, check) ==
    [call |-> call, revert |-> NoError, check |-> check, ret |-> NoReturn, inner |-> FALSE]
Read(call) == Step(call, NoError)

NoFault == [at |-> 0, err |-> NoError]
Faults(n) == {NoFault} \cup [at : 1..n, err : RemoteFailures]

GasCalls == {"estimateGas", "getGasPrice", "getTransactionCount", "getNetwork"}

\* voteOnProposal's inner catch around callStatic.vote (part_002:919-926).
VoteProbeCatch(error) ==
    IF Includes(error.message, "Already voted")
    THEN BadRequest(<<"You have already voted on this proposal">>)
    ELSE NoError

Raised(error) == error.kind # "none"

RECURSIVE RunFrom(_, _, _, _)
RunFrom(steps, flt, i, calls) ==
    IF i > Len(steps)
    THEN [thrown |-> NoError, ret |-> NoReturn, calls |-> calls]
    ELSE LET s == steps[i]
             log == Append(calls, s.call)
             callError == IF flt.at = i THEN flt.err ELSE s.revert
             caught == IF s.inner /\ Raised(callError)
                       THEN VoteProbeCatch(callError) ELSE callError
         IN  IF Raised(caught)
             THEN [thrown |-> caught, ret |-> NoReturn, calls |-> log]
             ELSE IF ~Raised(callError) /\ Raised(s.check)
             THEN [thrown |-> s.check, ret |-> NoReturn, calls |-> log]
             ELSE IF ~Raised(callError) /\ s.ret.returned
             THEN [thrown |-> NoError, ret |-> s.ret, calls |-> log]
             ELSE RunFrom(steps, flt, i + 1, log)

Run(steps, flt) == RunFrom(steps, flt, 1, <<>>)

\* The four assembly calls every single-transaction builder ends with.
Assembly == <<Read("estimateGas"), Read("getGasPrice"),
              Read("getTransactionCount"), Read("getNetwork")>>

(***************************************************************************)
(* Unsigned transactions and responses.                                    *)
(***************************************************************************)
Encode(fn, args) == [fn |-> fn, args |-> args]      \* Interface.encodeFunctionData
NoValue == ""

Tx(from, to, data, value, c, nonce) ==
    [from |-> from, to |-> to, data |-> data, value |-> value,
     gasLimit |-> <<"gas", data.fn>>,               \* provider.estimateGas(...)
     gasPrice |-> c.gasPrice, nonce |-> nonce, chainId |-> c.chainId]

NoBody == [returned |-> FALSE]
NoRequest == [op |-> "none"]
NoResp == [op |-> "none", status |-> 0, message |-> <<>>, txs |-> <<>>,
           calls |-> <<>>, thrown |-> NoError, req |-> NoRequest, body |-> NoBody]

\* A request that threw `error` out of the handler, `thrown` being what was
\* first thrown inside it.
Failed(op, req, error, thrown, calls) ==
    [op |-> op, status |-> error.status, message |-> error.message, txs |-> <<>>,
     calls |-> calls, thrown |-> thrown, req |-> req, body |-> NoBody]

Returned(op, req, message, txs, calls, body) ==
    [op |-> op, status |-> 200, message |-> message, txs |-> txs,
     calls |-> calls, thrown |-> NoError, req |-> req, body |-> body]

\* `${error.message}` appended to a handler's own prefix.
Wrap(prefix, error) == <<prefix>> \o error.message

Truthy(s) == s # <<>>

(***************************************************************************)
(* Amounts as text.  A BigNumber is written as its decimal digits.         *)
(***************************************************************************)
RECURSIVE DigitsOf(_)
DigitsOf(n) == IF n < 10 THEN <<n>> ELSE Append(DigitsOf(n \div 10), n % 10)

RECURSIVE JoinDigits(_)
JoinDigits(ds) == IF ds = <<>> THEN "" ELSE ToString(Head(ds)) \o JoinDigits(Tail(ds))

RECURSIVE Zeros(_)
Zeros(k) == IF k <= 0 THEN <<>> ELSE <<0>> \o Zeros(k - 1)

RECURSIVE StripTrailingZeros(_)
StripTrailingZeros(ds) ==
    IF Len(ds) > 1 /\ ds[Len(ds)] = 0
    THEN StripTrailingZeros(SubSeq(ds, 1, Len(ds) - 1)) ELSE ds

RECURSIVE StripLeadingZeros(_)
StripLeadingZeros(ds) ==
    IF Len(ds) > 1 /\ ds[1] = 0 THEN StripLeadingZeros(Tail(ds)) ELSE ds

EtherDecimals == 18

\* Digits as character codes, and character codes as text.
Codes(ds) == [i \in DOMAIN ds |-> ds[i] + 48]

RECURSIVE TextOf(_)
TextOf(s) ==
    IF s = <<>> THEN ""
    ELSE (IF Head(s) = 46 THEN "." ELSE IF Head(s) = 45 THEN "-"
          ELSE ToString(Head(s) - 48)) \o TextOf(Tail(s))

\* ethers.utils.formatEther on the digits of a wei amount: whole "." fraction,
\* the fraction padded to 18 digits and its trailing zeros stripped to one.
formatEtherCodes(ds) ==
    LET padded == Zeros(EtherDecimals + 1 - Len(ds)) \o ds
        cut == Len(padded) - EtherDecimals
    IN  Codes(SubSeq(padded, 1, cut)) \o <<46>>
          \o Codes(StripTrailingZeros(SubSeq(padded, cut + 1, Len(padded))))

formatEtherDigits(ds) == TextOf(formatEtherCodes(ds))

formatEther(wei) == formatEtherDigits(DigitsOf(wei))

\* A decimal string of the request, as character codes: digits, "." and "-".
RECURSIVE DigitValues(_)
DigitValues(s) == IF s = <<>> THEN <<>> ELSE <<Head(s) - 48>> \o DigitValues(Tail(s))

\* parseFloat(s) <= 0 for a decimal string: negative, or every digit zero.
NotPositive(s) == s[1] = 45 \/ \A i \in DOMAIN s : s[i] \in {48, 46}

\* value.split("."): the text before the first "." and the text after it.
DotsIn(s) == {i \in DOMAIN s : s[i] = 46}
FirstDot(s) == CHOOSE i \in DotsIn(s) : \A j \in DotsIn(s) : i <= j
WholeText(s) == IF DotsIn(s) = {} THEN s ELSE SubSeq(s, 1, FirstDot(s) - 1)
FractionText(s) == IF DotsIn(s) = {} THEN <<>> ELSE SubSeq(s, FirstDot(s) + 1, Len(s))

\* The fraction as parseEther reads it: "0" when absent, trailing zeros cut.
FractionDigits(s) ==
    StripTrailingZeros(IF FractionText(s) = <<>> THEN <<0>>
                       ELSE [i \in DOMAIN FractionText(s) |-> FractionText(s)[i] - 48])

\* ethers.utils.parseEther throws on text that is not a non-negative decimal
\* number with at most 18 significant fraction digits.
ParseFault(s) ==
    \/ s = <<>> \/ s = <<46>>
    \/ \E i \in DOMAIN s : s[i] \notin (48..57) \cup {46}
    \/ Cardinality(DotsIn(s)) > 1
    \/ Len(FractionDigits(s)) > EtherDecimals

\* ethers.utils.parseEther on a non-negative decimal string: the digits of
\* whole * 10^18 + fraction padded to 18 digits.
parseEtherDigits(s) ==
    LET whole == IF WholeText(s) = <<>> THEN <<0>>
                 ELSE [i \in DOMAIN WholeText(s) |-> WholeText(s)[i] - 48]
        fraction == FractionDigits(s)
    IN  StripLeadingZeros(whole \o fraction \o Zeros(EtherDecimals - Len(fraction)))

parseEther(s) == JoinDigits(parseEtherDigits(s))

(***************************************************************************)
(* getProposalStatus.  Its arguments are JavaScript numbers, so each       *)
(* percentage is an IEEE-754 double: the quotient and the difference are   *)
(* rounded to 53 significant binary digits, to nearest, ties to even.      *)
(* A double in [0, 128) is a frame of IntBits + FracBits binary digits,    *)
(* most significant first; every value the function meets for votes and    *)
(* threshold within 0..decimals, decimals within 1..100, fits the frame.   *)
(***************************************************************************)
MantissaBits == 53
IntBits == 7
FracBits == 60

\* The k binary digits of the integer n < 2^k.
IntToBits(n, k) == [i \in 1..k |-> (n \div (2 ^ (k - i))) % 2]

\* 2^k modulo d.
RECURSIVE Pow2Mod(_, _)
Pow2Mod(k, d) ==
    IF k = 0 THEN 1 % d
    ELSE IF k % 2 = 1 THEN (2 * Pow2Mod(k - 1, d)) % d
    ELSE LET h == Pow2Mod(k \div 2, d) IN (h * h) % d

\* What long division of r by d leaves after k digits, for 0 <= r < d.
RemainderAfter(r, d, k) == (r * Pow2Mod(k, d)) % d

\* The first FracBits binary digits of r / d after the point.
FracDigits(r, d) ==
    [k \in 1..FracBits |-> (2 * RemainderAfter(r, d, k - 1)) \div d]

LeadingOne(bits) ==
    IF \E i \in DOMAIN bits : bits[i] = 1
    THEN CHOOSE i \in DOMAIN bits : bits[i] = 1 /\ \A j \in 1..(i - 1) : bits[j] = 0
    ELSE 0

TrailingOne(bits) ==
    IF \E i \in DOMAIN bits : bits[i] = 1
    THEN CHOOSE i \in DOMAIN bits : bits[i] = 1 /\ \A j \in (i + 1)..Len(bits) : bits[j] = 0
    ELSE 0

ZeroBits(n) == [i \in 1..n |-> 0]

\* Adds one unit at digit i: the carry runs left through the ones and stops
\* at the first zero (there is one: the frame is wider than its values).
AddAt(bits, i) ==
    LET stop == CHOOSE j \in 1..i : bits[j] = 0 /\ \A k \in (j + 1)..i : bits[k] = 1
    IN  SubSeq(bits, 1, stop - 1) \o <<1>> \o ZeroBits(i - stop)
          \o SubSeq(bits, i + 1, Len(bits))

\* Rounds the exact value `bits` (plus something below the frame when
\* `sticky`) to MantissaBits significant digits, to nearest, ties to even.
RoundToDouble(bits, sticky) ==
    LET p == LeadingOne(bits)
        lsb == p + MantissaBits - 1
        guard == lsb + 1
    IN  IF p = 0 \/ guard > Len(bits) THEN bits
        ELSE LET below == sticky \/ \E i \in (guard + 1)..Len(bits) : bits[i] = 1
                 up == bits[guard] = 1 /\ (below \/ bits[lsb] = 1)
                 kept == SubSeq(bits, 1, lsb) \o ZeroBits(Len(bits) - lsb)
             IN  IF up THEN AddAt(kept, lsb) ELSE kept

\* The integer n < 2^IntBits as a double.
FromInt(n) == IntToBits(n, IntBits) \o ZeroBits(FracBits)

\* n / d in double arithmetic, for integers n >= 0, d >= 1, n / d < 2^IntBits.
FDiv(n, d) ==
    RoundToDouble(IntToBits(n \div d, IntBits) \o FracDigits(n % d, d),
                  RemainderAfter(n % d, d, FracBits) # 0)

IntPart(x) == SubSeq(x, 1, IntBits)
FracPart(x) == SubSeq(x, IntBits + 1, Len(x))

RECURSIVE BitsToInt(_)
BitsToInt(bits) ==
    IF bits = <<>> THEN 0
    ELSE 2 * BitsToInt(SubSeq(bits, 1, Len(bits) - 1)) + bits[Len(bits)]

\* 1 - f for a fraction 0 < f < 1: the digits left of its last one flip.
OneMinus(frac) ==
    LET last == TrailingOne(frac)
    IN  [i \in 1..(last - 1) |-> 1 - frac[i]] \o SubSeq(frac, last, Len(frac))

\* n - x in double arithmetic, for an integer n and a double x <= n.
FSub(n, x) ==
    LET whole == BitsToInt(IntPart(x))
    IN  RoundToDouble(
            IF TrailingOne(FracPart(x)) = 0
            THEN FromInt(n - whole)
            ELSE IntToBits(n - whole - 1, IntBits) \o OneMinus(FracPart(x)),
            FALSE)

\* a < b on doubles.
Less(a, b) == \E i \in DOMAIN a : a[i] < b[i] /\ \A j \in 1..(i - 1) : a[j] = b[j]

\* (v * 100) / decimals
Percentage(v, decimals) == FDiv(v * 100, decimals)

\* A getProposalStatus that passes only above the threshold.
getProposalStatus_StrictPassing(votesFor, votesAgainst, threshold, decimals) ==
    LET forPercentage == Percentage(votesFor, decimals)
        againstPercentage == Percentage(votesAgainst, decimals)
        thresholdPercentage == Percentage(threshold, decimals)
    IN  IF Less(thresholdPercentage, forPercentage) THEN "Passing"
        ELSE IF Less(FSub(100, thresholdPercentage), againstPercentage) THEN "Failing"
        ELSE "In Progress"

getProposalStatus(votesFor, votesAgainst, threshold, decimals) ==
    LET forPercentage == Percentage(votesFor, decimals)
        againstPercentage == Percentage(votesAgainst, decimals)
        thresholdPercentage == Percentage(threshold, decimals)
    IN  IF ~Less(forPercentage, thresholdPercentage) THEN "Passing"
        ELSE IF Less(FSub(100, thresholdPercentage), againstPercentage) THEN "Failing"
        ELSE "In Progress"

(***************************************************************************)
(* createListing's symbol derivation.                                      *)
(***************************************************************************)
SymbolPrefixLen == 5              \* .substring(0, 5)
NFT == <<78, 70, 84>>             \* "NFT"
TKN == <<84, 75, 78>>             \* "TKN"

\* The characters hardware names are drawn from: "a", "Z", "7", " " and the
\* non-ASCII letter "ß", whose upper-case form is the two characters "SS".
NameChars == {97, 90, 55, 32, 223}

RECURSIVE SeqsUpTo(_, _)
SeqsUpTo(S, n) ==
    IF n = 0 THEN {<<>>}
    ELSE LET shorter == SeqsUpTo(S, n - 1)
         IN  shorter \cup {Append(s, c) : s \in {t \in shorter : Len(t) = n - 1}, c \in S}

\* createListing rejects an empty hardwareName before it derives anything.
HardwareNames == SeqsUpTo(NameChars, MaxNameLen) \ {<<>>}

\* The class [A-Z0-9] under the i flag (no u flag): a character outside ASCII
\* never folds onto an ASCII one, so the class is the ASCII letters and digits.
IsAlnum(c) == IsUpper(c) \/ IsLower(c) \/ IsDigit(c)

\* .replace(/[^A-Z0-9]/gi, "")
StripNonAlnum(s) == SelectSeq(s, IsAlnum)

\* .substring(start, end) for 0 <= start <= end
substring(s, start, end) ==
    SubSeq(s, start + 1, IF end < Len(s) THEN end ELSE Len(s))

\* String.prototype.toUpperCase, one character at a time: "ß" becomes "SS".
UpperOf(c) ==
    IF IsLower(c) THEN <<c - 32>>
    ELSE IF c = 223 THEN <<83, 83>>
    ELSE <<c>>

RECURSIVE toUpperCase(_)
toUpperCase(s) ==
    IF s = <<>> THEN <<>> ELSE UpperOf(Head(s)) \o toUpperCase(Tail(s))

\* A derivation that truncates the raw name before it strips it.
deriveSymbol_TruncateFirst(name, suffix) ==
    toUpperCase(StripNonAlnum(substring(name, 0, SymbolPrefixLen))) \o suffix

\* A derivation that appends nothing.
deriveSymbol_NoSuffix(name, suffix) ==
    toUpperCase(substring(StripNonAlnum(name), 0, SymbolPrefixLen))

\* hardwareName.replace(...).substring(0, 5).toUpperCase() + suffix
deriveSymbol(name, suffix) ==
    toUpperCase(substring(StripNonAlnum(name), 0, SymbolPrefixLen)) \o suffix

(***************************************************************************)
(* buyTokens (part_002:366-466).  numberOfTokens is a JavaScript number: a  *)
(* whole number, or a whole number and a half.  Zero also stands for an    *)
(* absent field: both are falsy.                                           *)
(***************************************************************************)
Whole(n) == [whole |-> n, half |-> FALSE]
AndAHalf(n) == [whole |-> n, half |-> TRUE]

\* !x
IsFalsy(x) == x = Whole(0)

\* x <= 0
LessOrEqualZero(x) == x.whole < 0 \/ x = Whole(0)

\* x > n, for a whole number n
Exceeds(x, n) == x.whole > n \/ (x.whole = n /\ x.half)

\* `${x}`
NumberText(x) == IF x.half THEN ToString(x.whole) \o ".5" ELSE ToString(x.whole)

\* What ethers.BigNumber.from throws for a number with a fraction.
NumericFault ==
    [kind |-> "fault", status |-> 0, code |-> "NUMERIC_FAULT", message |-> <<"underflow">>]

\* ethers.BigNumber.from(x) throws unless x is a whole number.
BigNumberFrom(x) == IF x.half THEN NumericFault ELSE NoError

MsgNotEnough == "Not enough tokens available"

\* A buyTokens that estimates gas before it checks the availability.
BuySteps_GasBeforeCheck(req, c) ==
    << Step("tokenPrice", BigNumberFrom(req.numberOfTokens)), Read("estimateGas"),
       Step("getAvailableTokensForSale",
            IF c.avail < req.numberOfTokens.whole
            THEN BadRequest(<<MsgNotEnough, " for sale. Requested: ",
                              NumberText(req.numberOfTokens), ", Available: ",
                              ToString(c.avail)>>)
            ELSE NoError),
       Read("getGasPrice"), Read("getTransactionCount"), Read("getNetwork") >>

BuySteps(req, c) ==
    << Step("tokenPrice", BigNumberFrom(req.numberOfTokens)),
       Step("getAvailableTokensForSale",
            IF c.avail < req.numberOfTokens.whole
            THEN BadRequest(<<MsgNotEnough, " for sale. Requested: ",
                              NumberText(req.numberOfTokens), ", Available: ",
                              ToString(c.avail)>>)
            ELSE NoError) >> \o Assembly

BuyCatch(error) ==
    IF Includes(error.message, MsgNotEnough) THEN error
    ELSE IF Includes(error.message, "Incorrect payment amount")
    THEN BadRequest(<<"Incorrect payment amount calculated. Please try again.">>)
    ELSE InternalServerError(Wrap("Failed to prepare buy transaction: ", error))

\* A buyTokens that asks for the price of one token whatever the amount.
buyTokens_UnitPrice(req, c, flt) ==
    IF IsFalsy(req.numberOfTokens) \/ ~Truthy(req.userAddress) \/ ~Truthy(req.daoAddress)
    THEN LET e == BadRequest(<<"Number of tokens, user address, and DAO address are required">>)
         IN  Failed("buyTokens", req, e, e, <<>>)
    ELSE IF LessOrEqualZero(req.numberOfTokens)
    THEN LET e == BadRequest(<<"Amount must be greater than 0">>)
         IN  Failed("buyTokens", req, e, e, <<>>)
    ELSE LET r == Run(BuySteps(req, c), flt)
             totalPayment == c.tokenPrice
             tx == Tx(req.userAddress, req.daoAddress,
                      Encode("buyTokens", <<NumberText(req.numberOfTokens)>>),
                      ToString(totalPayment), c, c.nonce)
         IN  IF Raised(r.thrown)
             THEN Failed("buyTokens", req, BuyCatch(r.thrown), r.thrown, r.calls)
             ELSE Returned("buyTokens", req,
                      <<"Transaction created to buy ", NumberText(req.numberOfTokens),
                        " tokens for ", formatEther(totalPayment),
                        " ETH. Please sign to complete purchase.">>,
                      <<tx>>, r.calls,
                      [returned |-> TRUE, totalPayment |-> formatEther(totalPayment)])

buyTokens(req, c, flt) ==
    IF IsFalsy(req.numberOfTokens) \/ ~Truthy(req.userAddress) \/ ~Truthy(req.daoAddress)
    THEN LET e == BadRequest(<<"Number of tokens, user address, and DAO address are required">>)
         IN  Failed("buyTokens", req, e, e, <<>>)
    ELSE IF LessOrEqualZero(req.numberOfTokens)
    THEN LET e == BadRequest(<<"Amount must be greater than 0">>)
         IN  Failed("buyTokens", req, e, e, <<>>)
    ELSE LET r == Run(BuySteps(req, c), flt)
             totalPayment == c.tokenPrice * req.numberOfTokens.whole
             tx == Tx(req.userAddress, req.daoAddress,
                      Encode("buyTokens", <<NumberText(req.numberOfTokens)>>),
                      ToString(totalPayment), c, c.nonce)
         IN  IF Raised(r.thrown)
             THEN Failed("buyTokens", req, BuyCatch(r.thrown), r.thrown, r.calls)
             ELSE Returned("buyTokens", req,
                      <<"Transaction created to buy ", NumberText(req.numberOfTokens),
                        " tokens for ", formatEther(totalPayment),
                        " ETH. Please sign to complete purchase.">>,
                      <<tx>>, r.calls,
                      [returned |-> TRUE, totalPayment |-> formatEther(totalPayment)])

(***************************************************************************)
(* proposeNewRentalPrice (part_002:751-866).                               *)
(***************************************************************************)
MsgNotHolderPropose == "You must be a token holder to propose a new rental price"
MsgProposalActive == "There's already an active proposal"
MsgContractCallFailed == "Contract call failed. Make sure the DAO contract is valid."

ProposeSteps(req, c) ==
    << Read("TOKEN_CONTRACT"),
       Step("balanceOf",
            IF c.bal = 0 THEN BadRequest(<<MsgNotHolderPropose>>) ELSE NoError),
       Step("currentProposal",
            IF c.proposalActive THEN BadRequest(<<MsgProposalActive>>) ELSE NoError),
       Read("rentalPrice") >> \o Assembly
    \o << Read("VOTE_THRESHOLD"), Read("PERCENTAGE_DECIMALS") >>

ProposeCatch(error) ==
    IF error.code = "CALL_EXCEPTION"
    THEN BadRequest(<<MsgContractCallFailed>>)
    ELSE InternalServerError(Wrap("Failed to create proposal transaction: ", error))

proposeNewRentalPrice(req, c, flt) ==
    IF ~Truthy(req.daoAddress) \/ ~Truthy(req.userAddress) \/ ~Truthy(req.newRentalPrice)
    THEN LET e == BadRequest(<<"DAO address, user address, and new rental price are required">>)
         IN  Failed("proposeNewRentalPrice", req, e, e, <<>>)
    ELSE IF NotPositive(req.newRentalPrice)
    THEN LET e == BadRequest(<<"Rental price must be greater than 0">>)
         IN  Failed("proposeNewRentalPrice", req, e, e, <<>>)
    ELSE LET r == Run(ProposeSteps(req, c), flt)
             tx == Tx(req.userAddress, req.daoAddress,
                      Encode("proposeNewRent", <<parseEther(req.newRentalPrice)>>),
                      NoValue, c, c.nonce)
         IN  IF Raised(r.thrown)
             THEN Failed("proposeNewRentalPrice", req, ProposeCatch(r.thrown),
                         r.thrown, r.calls)
             ELSE Returned("proposeNewRentalPrice", req,
                      <<"Transaction created to propose new rental price of ",
                        JoinDigits(DigitValues(req.newRentalPrice)), " ETH/day (current: ",
                        formatEther(c.rentalPrice), " ETH/day).">>,
                      <<tx>>, r.calls,
                      [returned |-> TRUE,
                       currentRentalPrice |-> formatEther(c.rentalPrice),
                       newRentalPrice |-> req.newRentalPrice])

(***************************************************************************)
(* voteOnProposal (part_002:874-995).  inFavor is "true", "false" or       *)
(* "undefined" (absent).                                                   *)
(***************************************************************************)
MsgNotHolderVote == "You must be a token holder to vote"
MsgNoProposal == "There's no active proposal to vote on"
MsgAlreadyVoted == "You have already voted on this proposal"

\* A voteOnProposal whose probe sends the vote instead of simulating it.
VoteSteps_SendsVote(req, c) ==
    << Read("TOKEN_CONTRACT"),
       Step("balanceOf",
            IF c.bal = 0 THEN BadRequest(<<MsgNotHolderVote>>) ELSE NoError),
       Step("currentProposal",
            IF ~c.proposalActive THEN BadRequest(<<MsgNoProposal>>) ELSE NoError),
       [call |-> "vote",
        revert |-> IF c.voted THEN AlreadyVotedRevert ELSE NoError,
        check |-> NoError, ret |-> NoReturn, inner |-> TRUE],
       Read("totalSupply"),
       Read("PERCENTAGE_DECIMALS") >> \o Assembly

VoteSteps(req, c) ==
    << Read("TOKEN_CONTRACT"),
       Step("balanceOf",
            IF c.bal = 0 THEN BadRequest(<<MsgNotHolderVote>>) ELSE NoError),
       Step("currentProposal",
            IF ~c.proposalActive THEN BadRequest(<<MsgNoProposal>>) ELSE NoError),
       [call |-> "callStatic.vote",
        revert |-> IF c.voted THEN AlreadyVotedRevert ELSE NoError,
        check |-> NoError, ret |-> NoReturn, inner |-> TRUE],
       Read("totalSupply"),
       Read("PERCENTAGE_DECIMALS") >> \o Assembly

VoteCatch(error) ==
    IF error.code = "CALL_EXCEPTION"
    THEN BadRequest(<<MsgContractCallFailed>>)
    ELSE InternalServerError(Wrap("Failed to create vote transaction: ", error))

\* What the simulated vote of a request failed with, if it was made and failed.
ProbeOutcome(steps, flt, calls) ==
    LET at == CHOOSE i \in DOMAIN steps : steps[i].inner
    IN  IF Len(calls) < at THEN NoError
        ELSE IF flt.at = at THEN flt.err ELSE steps[at].revert

\* A voter weight divided without rounding down.
VoterWeight_Exact(c) == FDiv(c.bal * 100, c.supply)

\* voterWeightPercentage (part_002:931-932): the weight on the DAO's scale,
\* rounded down, then as a percentage.
VoterWeight(c) ==
    Percentage((c.bal * c.percentageDecimals) \div c.supply, c.percentageDecimals)

voteOnProposal(req, c, flt) ==
    IF ~Truthy(req.daoAddress) \/ ~Truthy(req.userAddress) \/ req.inFavor = "undefined"
    THEN LET e == BadRequest(<<"DAO address, user address, and vote choice are required">>)
         IN  Failed("voteOnProposal", req, e, e, <<>>) @@ [probe |-> NoError]
    ELSE LET r == Run(VoteSteps(req, c), flt)
             probe == [probe |-> ProbeOutcome(VoteSteps(req, c), flt, r.calls)]
             tx == Tx(req.userAddress, req.daoAddress,
                      Encode("vote", <<req.inFavor>>), NoValue, c, c.nonce)
         IN  IF Raised(r.thrown)
             THEN Failed("voteOnProposal", req, VoteCatch(r.thrown), r.thrown, r.calls)
                    @@ probe
             ELSE Returned("voteOnProposal", req,
                      <<"Transaction created to vote ",
                        IF req.inFavor = "true" THEN "in favor of" ELSE "against",
                        " the proposal to change rental price.">>,
                      <<tx>>, r.calls,
                      [returned |-> TRUE,
                       votingWeight |-> <<VoterWeight(c), "%">>,
                       vote |-> IF req.inFavor = "true" THEN "In favor" ELSE "Against"])
                    @@ probe

(***************************************************************************)
(* becomeTenant (part_002:1088-1183).  The argument check is inside the    *)
(* try block.                                                              *)
(***************************************************************************)
MsgHasTenant == "This property already has a tenant. It's not available for rent."
MsgAddressesRequired == "User address and DAO address are required"

TenantSteps(req, c) ==
    << Step("currentTenant",
            IF c.tenant # AddressZero THEN BadRequest(<<MsgHasTenant>>) ELSE NoError),
       Read("rentalPrice") >> \o Assembly

TenantCatch(error) ==
    IF Includes(error.message, "Property already rented")
    THEN BadRequest(<<"This property is already rented by another tenant.">>)
    ELSE IF Includes(error.message, "Incorrect rent amount")
    THEN BadRequest(<<"The rental payment amount is incorrect. Please try again.">>)
    ELSE InternalServerError(Wrap("Failed to prepare tenant transaction: ", error))

becomeTenant(req, c, flt) ==
    IF ~Truthy(req.userAddress) \/ ~Truthy(req.daoAddress)
    THEN LET e == BadRequest(<<MsgAddressesRequired>>)
         IN  Failed("becomeTenant", req, TenantCatch(e), e, <<>>)
    ELSE LET r == Run(TenantSteps(req, c), flt)
             tx == Tx(req.userAddress, req.daoAddress, Encode("becomeTenant", <<>>),
                      ToString(c.rentalPrice), c, c.nonce)
         IN  IF Raised(r.thrown)
             THEN Failed("becomeTenant", req, TenantCatch(r.thrown), r.thrown, r.calls)
             ELSE Returned("becomeTenant", req,
                      <<"Transaction created to become a tenant for ",
                        formatEther(c.rentalPrice),
                        " ETH. Please sign to complete the rental.">>,
                      <<tx>>, r.calls,
                      [returned |-> TRUE, rentalPrice |-> formatEther(c.rentalPrice)])

(***************************************************************************)
(* getUnlistApprovalTx (part_002:1358-1439).                               *)
(***************************************************************************)
MsgOwnAll == "You must own all tokens to unlock the NFT. You own "
MsgAlreadyApproved == "Tokens are already approved. Proceed to unlocking the NFT."

UnlistApprovalSteps(req, c) ==
    << Read("TOKEN_CONTRACT"),
       Read("totalSupply"),
       Step("balanceOf",
            IF c.bal # c.supply
            THEN BadRequest(<<MsgOwnAll, ToString(c.bal), " of ", ToString(c.supply),
                              " tokens.">>)
            ELSE NoError),
       [call |-> "allowance", revert |-> NoError, check |-> NoError,
        ret |-> IF c.allowance >= c.supply
                THEN [returned |-> TRUE, needsApproval |-> FALSE] ELSE NoReturn,
        inner |-> FALSE],
       Read("estimateGas"), Read("getTransactionCount"),
       Read("getGasPrice"), Read("getNetwork") >>

UnlistApprovalCatch(error) ==
    InternalServerError(Wrap("Failed to prepare approval transaction: ", error))

getUnlistApprovalTx(req, c, flt) ==
    IF ~Truthy(req.userAddress) \/ ~Truthy(req.daoAddress)
    THEN LET e == BadRequest(<<MsgAddressesRequired>>)
         IN  Failed("getUnlistApprovalTx", req, e, e, <<>>)
    ELSE LET r == Run(UnlistApprovalSteps(req, c), flt)
             tx == Tx(req.userAddress, TokenAddr,
                      Encode("approve", <<req.daoAddress, ToString(c.supply)>>),
                      NoValue, c, c.nonce)
         IN  IF Raised(r.thrown)
             THEN Failed("getUnlistApprovalTx", req, UnlistApprovalCatch(r.thrown),
                         r.thrown, r.calls)
             ELSE IF r.ret.returned
             THEN Returned("getUnlistApprovalTx", req, <<MsgAlreadyApproved>>,
                           <<>>, r.calls, r.ret)
             ELSE Returned("getUnlistApprovalTx", req,
                      <<"Approve token transfer to DAO contract before unlocking NFT">>,
                      <<tx>>, r.calls,
                      [returned |-> TRUE, needsApproval |-> TRUE,
                       totalSupply |-> ToString(c.supply)])

(***************************************************************************)
(* completeUnlist (part_002:1441-1571).                                    *)
(***************************************************************************)
MsgOnlyOwner == "Only the marketplace owner can remove the listing"
MsgApproveFirst == "You must approve the DAO to transfer all tokens first. Currently approved: "

\* A completeUnlist that does not look at the allowance it read.
CompleteUnlistSteps_NoAllowanceCheck(req, c) ==
    << Step("owner",
            IF toLowerCase(c.owner) # toLowerCase(req.userAddress)
            THEN BadRequest(<<MsgOnlyOwner>>) ELSE NoError),
       Read("TOKEN_CONTRACT"),
       Read("totalSupply"),
       Read("allowance"),
       Read("getTransactionCount"), Read("getGasPrice"), Read("getNetwork"),
       Read("estimateGas"), Read("estimateGas") >>

\* A completeUnlist that wants more than the total supply approved.
CompleteUnlistSteps_StrictAllowance(req, c) ==
    << Step("owner",
            IF toLowerCase(c.owner) # toLowerCase(req.userAddress)
            THEN BadRequest(<<MsgOnlyOwner>>) ELSE NoError),
       Read("TOKEN_CONTRACT"),
       Read("totalSupply"),
       Step("allowance",
            IF c.allowance <= c.supply
            THEN BadRequest(<<MsgApproveFirst, ToString(c.allowance), " of ",
                              ToString(c.supply), " needed.">>)
            ELSE NoError),
       Read("getTransactionCount"), Read("getGasPrice"), Read("getNetwork"),
       Read("estimateGas"), Read("estimateGas") >>

\* A completeUnlist that repeats the full-ownership check of the approval step.
CompleteUnlistSteps_ChecksBalance(req, c) ==
    << Step("owner",
            IF toLowerCase(c.owner) # toLowerCase(req.userAddress)
            THEN BadRequest(<<MsgOnlyOwner>>) ELSE NoError),
       Read("TOKEN_CONTRACT"),
       Read("totalSupply"),
       Step("balanceOf",
            IF c.bal # c.supply
            THEN BadRequest(<<MsgOwnAll, ToString(c.bal), " of ", ToString(c.supply),
                              " tokens.">>)
            ELSE NoError),
       Step("allowance",
            IF c.allowance < c.supply
            THEN BadRequest(<<MsgApproveFirst, ToString(c.allowance), " of ",
                              ToString(c.supply), " needed.">>)
            ELSE NoError),
       Read("getTransactionCount"), Read("getGasPrice"), Read("getNetwork"),
       Read("estimateGas"), Read("estimateGas") >>

CompleteUnlistSteps(req, c) ==
    << Step("owner",
            IF toLowerCase(c.owner) # toLowerCase(req.userAddress)
            THEN BadRequest(<<MsgOnlyOwner>>) ELSE NoError),
       Read("TOKEN_CONTRACT"),
       Read("totalSupply"),
       Step("allowance",
            IF c.allowance < c.supply
            THEN BadRequest(<<MsgApproveFirst, ToString(c.allowance), " of ",
                              ToString(c.supply), " needed.">>)
            ELSE NoError),
       Read("getTransactionCount"), Read("getGasPrice"), Read("getNetwork"),
       Read("estimateGas"), Read("estimateGas") >>

\* A batch whose second transaction reuses the nonce of the first.
CompleteUnlistTxs_SameNonce(req, c) ==
    LET nonce == c.nonce
    IN  << Tx(req.userAddress, req.daoAddress, Encode("unlockNFT", <<>>),
              NoValue, c, nonce),
           Tx(req.userAddress, MarketplaceAddr,
              Encode("removeListing", <<req.daoAddress>>), NoValue, c, nonce) >>

\* A batch numbered from the nonce after the one read.
CompleteUnlistTxs_NextNonce(req, c) ==
    LET nonce == c.nonce + 1
    IN  << Tx(req.userAddress, req.daoAddress, Encode("unlockNFT", <<>>),
              NoValue, c, nonce),
           Tx(req.userAddress, MarketplaceAddr,
              Encode("removeListing", <<req.daoAddress>>), NoValue, c, nonce + 1) >>

\* The batch: unlockTx, then removeTx (part_002:1502-1549).
CompleteUnlistTxs(req, c) ==
    LET nonce == c.nonce
    IN  << Tx(req.userAddress, req.daoAddress, Encode("unlockNFT", <<>>),
              NoValue, c, nonce),
           Tx(req.userAddress, MarketplaceAddr,
              Encode("removeListing", <<req.daoAddress>>), NoValue, c, nonce + 1) >>

CompleteUnlistCatch(error) ==
    InternalServerError(Wrap("Failed to prepare unlisting transactions: ", error))

completeUnlist(req, c, flt) ==
    IF ~Truthy(req.userAddress) \/ ~Truthy(req.daoAddress)
    THEN LET e == BadRequest(<<MsgAddressesRequired>>)
         IN  Failed("completeUnlist", req, e, e, <<>>)
    ELSE LET r == Run(CompleteUnlistSteps(req, c), flt)
         IN  IF Raised(r.thrown)
             THEN Failed("completeUnlist", req, CompleteUnlistCatch(r.thrown),
                         r.thrown, r.calls)
             ELSE Returned("completeUnlist", req,
                      <<"Execute these transactions in sequence to unlock the NFT and remove the listing">>,
                      CompleteUnlistTxs(req, c), r.calls, [returned |-> TRUE])

(***************************************************************************)
(* getTokenApprovalTx and getFractionalizeTokensTx (part_002:197-358).     *)
(* Gas estimation runs the transaction on the node; when it would revert,  *)
(* the estimate fails with the contract's reason in its message.           *)
(***************************************************************************)
RevertReason(reason) ==
    RpcError("UNPREDICTABLE_GAS_LIMIT", <<"cannot estimate gas; execution reverted: ", reason>>)

\* The failures of the call at position `at` that carry a revert reason.
Reverts(at, reasons) == {[at |-> at, err |-> RevertReason(r)] : r \in reasons}

MsgAmountRequired == "Number of tokens, user address, and DAO address are required"
MsgAmountPositive == "Amount must be greater than 0"

TokenApprovalSteps(req, c) ==
    << Step("TOKEN_CONTRACT", BigNumberFrom(req.numberOfTokens)) >> \o Assembly

TokenApprovalCatch(error) ==
    IF Includes(error.message, "Insufficient balance")
    THEN BadRequest(<<"You don't have enough tokens to approve the requested amount.">>)
    ELSE InternalServerError(Wrap("Failed to prepare token approval transaction: ", error))

getTokenApprovalTx(req, c, flt) ==
    IF IsFalsy(req.numberOfTokens) \/ ~Truthy(req.userAddress) \/ ~Truthy(req.daoAddress)
    THEN LET e == BadRequest(<<MsgAmountRequired>>)
         IN  Failed("getTokenApprovalTx", req, e, e, <<>>)
    ELSE IF LessOrEqualZero(req.numberOfTokens)
    THEN LET e == BadRequest(<<MsgAmountPositive>>)
         IN  Failed("getTokenApprovalTx", req, e, e, <<>>)
    ELSE LET r == Run(TokenApprovalSteps(req, c), flt)
             tx == Tx(req.userAddress, TokenAddr,
                      Encode("approve", <<req.daoAddress, NumberText(req.numberOfTokens)>>),
                      NoValue, c, c.nonce)
         IN  IF Raised(r.thrown)
             THEN Failed("getTokenApprovalTx", req, TokenApprovalCatch(r.thrown),
                         r.thrown, r.calls)
             ELSE Returned("getTokenApprovalTx", req,
                      <<"Transaction created successfully. Please sign to approve token transfer.">>,
                      <<tx>>, r.calls, [returned |-> TRUE])

FractionalizeSteps(req, c) == Assembly

FractionalizeCatch(error) ==
    IF Includes(error.message, "Total would exceed approval")
    THEN BadRequest(<<"You need to approve the DAO contract to spend your tokens first. Please call the token approval function before trying again.">>)
    ELSE IF Includes(error.message, "Insufficient balance")
    THEN BadRequest(<<"You don't have enough tokens to fractionalize the requested amount.">>)
    ELSE InternalServerError(Wrap("Failed to prepare fractionalization transaction: ", error))

getFractionalizeTokensTx(req, c, flt) ==
    IF IsFalsy(req.numberOfTokens) \/ ~Truthy(req.userAddress) \/ ~Truthy(req.daoAddress)
    THEN LET e == BadRequest(<<MsgAmountRequired>>)
         IN  Failed("getFractionalizeTokensTx", req, e, e, <<>>)
    ELSE IF LessOrEqualZero(req.numberOfTokens)
    THEN LET e == BadRequest(<<MsgAmountPositive>>)
         IN  Failed("getFractionalizeTokensTx", req, e, e, <<>>)
    ELSE IF Raised(BigNumberFrom(req.numberOfTokens))
    THEN Failed("getFractionalizeTokensTx", req,
                FractionalizeCatch(BigNumberFrom(req.numberOfTokens)),
                BigNumberFrom(req.numberOfTokens), <<>>)
    ELSE LET r == Run(FractionalizeSteps(req, c), flt)
             tx == Tx(req.userAddress, req.daoAddress,
                      Encode("approveTokensForSale", <<NumberText(req.numberOfTokens)>>),
                      NoValue, c, c.nonce)
         IN  IF Raised(r.thrown)
             THEN Failed("getFractionalizeTokensTx", req, FractionalizeCatch(r.thrown),
                         r.thrown, r.calls)
             ELSE Returned("getFractionalizeTokensTx", req,
                      <<"Transaction created successfully. Please sign to list tokens for sale.">>,
                      <<tx>>, r.calls, [returned |-> TRUE])

(***************************************************************************)
(* createListing (part_002:72-188).  It has no try block: whatever is      *)
(* thrown leaves the handler as it is.  totalTokens, tokenPrice and        *)
(* rentalPrice are JavaScript numbers, or undefined when the field is      *)
(* absent; a totalTokens of zero also stands for an absent one.            *)
(***************************************************************************)
Undefined == [undefined |-> TRUE]
IsUndefined(x) == "undefined" \in DOMAIN x

\* undefined.toString()
TypeError ==
    [kind |-> "fault", status |-> 0, code |-> "TypeError",
     message |-> <<"Cannot read properties of undefined (reading 'toString')">>]

\* encodeFunctionData given a negative number for a uint256.
OutOfBounds ==
    [kind |-> "fault", status |-> 0, code |-> "INVALID_ARGUMENT",
     message |-> <<"value out-of-bounds">>]

IsNegative(x) == ~IsUndefined(x) /\ x.whole < 0

\* `${x}` as character codes, for a number that is not negative.
NumberCodes(x) == Codes(DigitsOf(x.whole)) \o (IF x.half THEN <<46, 53>> ELSE <<>>)

\* What evaluating the arguments of createListing and encoding them throws
\* (part_002:142-151): the arguments are evaluated in order, then encoded.
CreateEncodeFault(req) ==
    IF ~IsFalsy(req.totalTokens) /\ Raised(BigNumberFrom(req.totalTokens))
    THEN NumericFault
    ELSE IF IsUndefined(req.tokenPrice) \/ IsUndefined(req.rentalPrice)
    THEN TypeError
    ELSE IF IsNegative(req.totalTokens) \/ IsNegative(req.tokenPrice)
              \/ IsNegative(req.rentalPrice)
    THEN OutOfBounds
    ELSE NoError

\* x || "" (part_002:96-98).
OrEmpty(x) == IF Truthy(x) THEN x ELSE <<>>

\* The JSON handed to the content store (part_002:92-99, 111).
hardwareMetadata(req) ==
    [ name |-> req.hardwareName, instanceId |-> req.instanceId,
      image |-> req.imageUrl, cpu |-> OrEmpty(req.cpu),
      memory |-> OrEmpty(req.memory), location |-> OrEmpty(req.location) ]

\* A variant that estimates gas before it publishes.
CreateSteps_EstimateFirst(req, c) ==
    << Read("estimateGas"), Step("publish", CreateEncodeFault(req)),
       Read("getGasPrice"), Read("getTransactionCount"), Read("getNetwork") >>

CreateSteps(req, c) ==
    << Step("publish", CreateEncodeFault(req)) >> \o Assembly

createListing(req, c, flt) ==
    IF ~Truthy(req.hardwareName) \/ ~Truthy(req.userAddress)
    THEN LET e == BadRequest(<<"Hardware name and user address are required">>)
         IN  Failed("createListing", req, e, e, <<>>)
    ELSE LET r == Run(CreateSteps(req, c), flt)
             data == Encode("createListing",
                       << req.hardwareName \o <<32>> \o NFT,
                          deriveSymbol(req.hardwareName, NFT),
                          req.hardwareName \o <<32, 84, 111, 107, 101, 110>>,
                          deriveSymbol(req.hardwareName, TKN),
                          "https://gateway.pinata.cloud/ipfs/IpfsHash",
                          IF IsFalsy(req.totalTokens) THEN "1000"
                          ELSE NumberText(req.totalTokens),
                          parseEther(NumberCodes(req.tokenPrice)),
                          parseEther(NumberCodes(req.rentalPrice)) >>)
             tx == Tx(req.userAddress, MarketplaceAddr, data, NoValue, c, c.nonce)
         IN  IF Raised(r.thrown)
             THEN Failed("createListing", req, r.thrown, r.thrown, r.calls)
                  @@ [published |-> hardwareMetadata(req)]
             ELSE Returned("createListing", req,
                      <<"Transaction created successfully. Please sign and submit.">>,
                      <<tx>>, r.calls, [returned |-> TRUE])
                  @@ [published |-> hardwareMetadata(req)]

(***************************************************************************)
(* Requests.                                                               *)
(***************************************************************************)
UserInputs == {NoAddress, UserAddr}
DaoInputs == {NoAddress, DaoAddr}
AmountInputs == {Whole(n) : n \in -1..(MaxSupply + 1)} \cup {AndAHalf(1)}
PriceInputs == {<<>>, <<48>>, <<49>>, <<45, 49>>}       \* absent, "0", "1", "-1"
VoteInputs == {"true", "false", "undefined"}

BuyRequests ==
    [numberOfTokens : AmountInputs, userAddress : UserInputs, daoAddress : DaoInputs]
ProposeRequests ==
    [daoAddress : DaoInputs, userAddress : UserInputs, newRentalPrice : PriceInputs]
VoteRequests == [daoAddress : DaoInputs, userAddress : UserInputs, inFavor : VoteInputs]
AddressRequests == [userAddress : UserInputs, daoAddress : DaoInputs]
CreateRequests ==
    [ hardwareName : {<<>>, <<97, 32, 90>>},                 \* absent, "a Z"
      userAddress : UserInputs,
      totalTokens : {Whole(-1), Whole(0), Whole(MaxSupply), AndAHalf(1)},
      tokenPrice : {Undefined, Whole(-1), Whole(0), Whole(1)},
      rentalPrice : {Undefined, AndAHalf(0)},
      imageUrl : {<<105>>}, instanceId : {<<49>>},           \* "i", "1"
      cpu : {<<>>}, memory : {<<56>>}, location : {<<>>} ]   \* absent, "8"

(***************************************************************************)
(* The builder service: one request is served at a time against the ledger *)
(* state of the moment, and its response handed to the caller.             *)
(***************************************************************************)
Idle == resp.op = "none"

Others == <<sym, cls, mkt, agg, money, run>>

BuyTokens ==
    /\ Idle
    /\ \E req \in BuyRequests :
         \E flt \in Faults(Len(BuySteps(req, chain)))
                       \cup Reverts(3, {"Incorrect payment amount"}) :
           resp' = buyTokens(req, chain, flt)
    /\ UNCHANGED <<chain, Others>>

ProposeNewRentalPrice ==
    /\ Idle
    /\ \E req \in ProposeRequests : \E flt \in Faults(Len(ProposeSteps(req, chain))) :
           resp' = proposeNewRentalPrice(req, chain, flt)
    /\ UNCHANGED <<chain, Others>>

VoteOnProposal ==
    /\ Idle
    /\ \E req \in VoteRequests : \E flt \in Faults(Len(VoteSteps(req, chain))) :
           resp' = voteOnProposal(req, chain, flt)
    /\ UNCHANGED <<chain, Others>>

BecomeTenant ==
    /\ Idle
    /\ \E req \in AddressRequests :
         \E flt \in Faults(Len(TenantSteps(req, chain)))
                       \cup Reverts(3, {"Property already rented",
                                        "Incorrect rent amount"}) :
           resp' = becomeTenant(req, chain, flt)
    /\ UNCHANGED <<chain, Others>>

GetUnlistApprovalTx ==
    /\ Idle
    /\ \E req \in AddressRequests :
         \E flt \in Faults(Len(UnlistApprovalSteps(req, chain))) :
           resp' = getUnlistApprovalTx(req, chain, flt)
    /\ UNCHANGED <<chain, Others>>

CompleteUnlist ==
    /\ Idle
    /\ \E req \in AddressRequests :
         \E flt \in Faults(Len(CompleteUnlistSteps(req, chain))) :
           resp' = completeUnlist(req, chain, flt)
    /\ UNCHANGED <<chain, Others>>

CreateListing ==
    /\ Idle
    /\ \E req \in CreateRequests : \E flt \in Faults(Len(CreateSteps(req, chain))) :
           resp' = createListing(req, chain, flt)
    /\ UNCHANGED <<chain, Others>>

GetTokenApprovalTx ==
    /\ Idle
    /\ \E req \in BuyRequests :
         \E flt \in Faults(Len(TokenApprovalSteps(req, chain)))
                       \cup Reverts(2, {"Insufficient balance"}) :
           resp' = getTokenApprovalTx(req, chain, flt)
    /\ UNCHANGED <<chain, Others>>

GetFractionalizeTokensTx ==
    /\ Idle
    /\ \E req \in BuyRequests :
         \E flt \in Faults(Len(FractionalizeSteps(req, chain)))
                       \cup Reverts(1, {"Total would exceed approval",
                                        "Insufficient balance"}) :
           resp' = getFractionalizeTokensTx(req, chain, flt)
    /\ UNCHANGED <<chain, Others>>

\* The caller takes the response; the service keeps nothing of the request.
Respond ==
    /\ ~Idle
    /\ resp' = NoResp
    /\ UNCHANGED <<chain, Others>>

NoSym == [phase |-> "off"]
NoCls == [phase |-> "off"]
NoMkt == [phase |-> "off"]
NoAgg == [phase |-> "off"]
NoMoney == [phase |-> "off"]
NoRun == [phase |-> "off"]

Init ==
    /\ chain \in Chains
    /\ resp = NoResp
    /\ run = NoRun
    /\ sym = NoSym /\ cls = NoCls /\ mkt = NoMkt /\ agg = NoAgg /\ money = NoMoney

Next ==
    \/ CreateListing
    \/ GetTokenApprovalTx
    \/ GetFractionalizeTokensTx
    \/ BuyTokens
    \/ ProposeNewRentalPrice
    \/ VoteOnProposal
    \/ BecomeTenant
    \/ GetUnlistApprovalTx
    \/ CompleteUnlist
    \/ Respond

Spec == Init /\ [][Next]_vars

(***************************************************************************)
(* Claims about the builders.                                              *)
(***************************************************************************)
Last(q) == q[Len(q)]

\* The request made remote call `name` and the call returned a value.
ReadOk(name) ==
    /\ \E i \in DOMAIN resp.calls : resp.calls[i] = name
    /\ resp.thrown.kind = "rpc" => Last(resp.calls) # name

WellFormedPropose(req) ==
    Truthy(req.daoAddress) /\ Truthy(req.userAddress) /\ Truthy(req.newRentalPrice)
      /\ ~NotPositive(req.newRentalPrice)

\* C1: a well-formed proposeNewRentalPrice whose balance read returns zero
\* ends as a 400 carrying the not-a-token-holder reason, never as a 500.
C1_ZeroBalanceIsClientError ==
    ( /\ resp.op = "proposeNewRentalPrice"
      /\ WellFormedPropose(resp.req)
      /\ ReadOk("balanceOf")
      /\ chain.bal = 0 )
    => ( /\ resp.status = 400
         /\ Includes(resp.message, MsgNotHolderPropose) )

PreconditionOps ==
    {"buyTokens", "proposeNewRentalPrice", "voteOnProposal", "becomeTenant",
     "getUnlistApprovalTx", "completeUnlist"}

\* The messages of the checks the builders make on values they have read.
PreconditionMessages ==
    {MsgNotEnough, MsgNotHolderPropose, MsgProposalActive, MsgNotHolderVote,
     MsgNoProposal, MsgAlreadyVoted, MsgHasTenant, MsgOwnAll, MsgOnlyOwner,
     MsgApproveFirst}

PreconditionFailed ==
    /\ resp.thrown.kind = "http"
    /\ \E m \in PreconditionMessages : Includes(resp.thrown.message, m)

\* C2: in a request where a precondition check failed, no gas estimate, gas
\* price, nonce or chain id query was issued.
C2_NoGasQueryAfterFailedCheck ==
    (resp.op \in PreconditionOps /\ PreconditionFailed)
    => \A i \in DOMAIN resp.calls : resp.calls[i] \notin GasCalls

\* C2's case: completeUnlist stopped at its second check, four reads in.
C2_Witness ==
    /\ resp.op = "completeUnlist"
    /\ Includes(resp.thrown.message, MsgApproveFirst)
    /\ Len(resp.calls) = 4

\* C3: a buyTokens request, addresses present and no remote call failing,
\* for an amount above the availability ends as a 400 with no transaction,
\* its message naming the requested and the available amount as they are.
C3_InsufficientSupply ==
    ( /\ resp.op = "buyTokens"
      /\ Truthy(resp.req.userAddress) /\ Truthy(resp.req.daoAddress)
      /\ resp.thrown.kind # "rpc"
      /\ Exceeds(resp.req.numberOfTokens, chain.avail) )
    => ( /\ resp.status = 400
         /\ resp.txs = <<>>
         /\ resp.message = <<MsgNotEnough, " for sale. Requested: ",
                             NumberText(resp.req.numberOfTokens), ", Available: ",
                             ToString(chain.avail)>> )

\* C5: a successful completeUnlist returns exactly unlockNFT() to the DAO with
\* the nonce n read once in the request, then removeListing(dao) to the
\* Marketplace with n + 1, both with the same gas price and chain id.
C5_UnlistBatch ==
    (resp.op = "completeUnlist" /\ resp.status = 200)
    => ( /\ Len(resp.txs) = 2
         /\ resp.txs[1].data = Encode("unlockNFT", <<>>)
         /\ resp.txs[1].to = resp.req.daoAddress
         /\ resp.txs[1].nonce = chain.nonce
         /\ resp.txs[2].data = Encode("removeListing", <<resp.req.daoAddress>>)
         /\ resp.txs[2].to = MarketplaceAddr
         /\ resp.txs[2].nonce = chain.nonce + 1
         /\ resp.txs[1].gasPrice = resp.txs[2].gasPrice
         /\ resp.txs[1].chainId = resp.txs[2].chainId
         /\ Cardinality({i \in DOMAIN resp.calls :
                            resp.calls[i] = "getTransactionCount"}) = 1 )

C5_Witness ==
    /\ resp.op = "completeUnlist"
    /\ resp.status = 200
    /\ Len(resp.txs) = 2
    /\ chain.nonce = 1

BuilderOps ==
    {"createListing", "getTokenApprovalTx", "getFractionalizeTokensTx"}
        \cup PreconditionOps

MissingAddress(req) ==
    \E f \in {"userAddress", "daoAddress"} \cap DOMAIN req : ~Truthy(req[f])

\* An amount that is absent, zero or negative.
BadAmount(req) ==
    \/ \E f \in {"numberOfTokens", "totalTokens", "tokenPrice", "rentalPrice"}
                  \cap DOMAIN req :
          IsUndefined(req[f]) \/ LessOrEqualZero(req[f])
    \/ /\ "newRentalPrice" \in DOMAIN req
       /\ (~Truthy(req.newRentalPrice) \/ NotPositive(req.newRentalPrice))

\* C12: a builder request with a missing address or with a missing, zero or
\* negative amount ends as a 400 and has issued no remote call.
C12_InvalidArgumentFirst ==
    (resp.op \in BuilderOps /\ (MissingAddress(resp.req) \/ BadAmount(resp.req)))
    => (resp.status = 400 /\ resp.calls = <<>>)

\* C13: a request stopped by a check on a value it read ends as a 400 whose
\* message is the reason the check gave, never as a 500.
C13_PreconditionIsClientError ==
    (resp.op \in PreconditionOps /\ PreconditionFailed)
    => (resp.status = 400 /\ resp.message = resp.thrown.message)

\* C14: a request in which a remote call failed for a reason that is no
\* business rule ends as a 500 whose message is the handler's own prefix
\* followed by the message of the failure.
C14_RemoteFailureWrapped ==
    (resp.op \in BuilderOps /\ resp.thrown = NetworkError)
    => ( /\ resp.status = 500
         /\ Len(resp.message) > 1
         /\ Tail(resp.message) = NetworkError.message )

\* The calls that leave the ledger as it is: contract reads, the simulated
\* vote, gas estimation and the provider's queries; and the content store.
LedgerReads ==
    {"TOKEN_CONTRACT", "balanceOf", "totalSupply", "allowance", "owner",
     "tokenPrice", "rentalPrice", "getAvailableTokensForSale", "currentProposal",
     "currentTenant", "VOTE_THRESHOLD", "PERCENTAGE_DECIMALS"}
StaticCalls == {"callStatic.vote"}
ContentStoreCalls == {"publish"}

C16_BuyValue ==
    (resp.op = "buyTokens" /\ resp.status = 200)
    => LET wei == chain.tokenPrice * resp.req.numberOfTokens.whole
       IN  /\ ReadOk("tokenPrice")
           /\ ~resp.req.numberOfTokens.half
           /\ Len(resp.txs) = 1
           /\ resp.txs[1].to = resp.req.daoAddress
           /\ resp.txs[1].data = Encode("buyTokens", <<ToString(resp.req.numberOfTokens.whole)>>)
           /\ resp.txs[1].value = ToString(wei)
           /\ resp.body.totalPayment = TextOf(formatEtherCodes(DigitsOf(wei)))
           /\ parseEther(formatEtherCodes(DigitsOf(wei))) = resp.txs[1].value

\* C16's case: two tokens bought at a price of 2 wei.
C16_Witness ==
    /\ resp.op = "buyTokens"
    /\ resp.status = 200
    /\ resp.req.numberOfTokens = Whole(2)
    /\ chain.tokenPrice = 2
    /\ resp.txs[1].value = "4"

\* C17: proposeNewRentalPrice returns a transaction only when the balance it
\* read is positive and the proposal it read is not active, the transaction
\* being proposeNewRent(priceWei) addressed to the DAO; when the proposal it
\* read is active it ends as the client error carrying the reason and
\* returns no transaction.
C17_ProposeOnlyWhenAllowed ==
    resp.op = "proposeNewRentalPrice"
    => /\ resp.txs # <<>>
            => /\ chain.bal > 0 /\ ~chain.proposalActive
               /\ Len(resp.txs) = 1
               /\ resp.txs[1].to = resp.req.daoAddress
               /\ resp.txs[1].data =
                    Encode("proposeNewRent", <<parseEther(resp.req.newRentalPrice)>>)
       /\ (ReadOk("currentProposal") /\ chain.proposalActive)
            => /\ resp.status = 400
               /\ Includes(resp.message, MsgProposalActive)
               /\ resp.txs = <<>>

SignalsAlreadyVoted(error) == Includes(error.message, "Already voted")

\* C18: voteOnProposal returns a transaction only when the balance it read
\* is positive and the proposal it read is active; it ends as the client
\* error "already voted", with no transaction, exactly when its simulated
\* vote failed with that signal; after any other failure of the simulated
\* vote the request goes on through the assembly.
C18_VoteProbe ==
    resp.op = "voteOnProposal"
    => /\ resp.txs # <<>>
            => /\ chain.bal > 0 /\ chain.proposalActive
               /\ Len(resp.txs) = 1
               /\ resp.txs[1].to = resp.req.daoAddress
               /\ resp.txs[1].data = Encode("vote", <<resp.req.inFavor>>)
       /\ SignalsAlreadyVoted(resp.probe)
            <=> (resp.status = 400 /\ Includes(resp.message, MsgAlreadyVoted))
       /\ SignalsAlreadyVoted(resp.probe) => resp.txs = <<>>
       /\ (Raised(resp.probe) /\ ~SignalsAlreadyVoted(resp.probe))
            => (resp.status = 200 /\ Last(resp.calls) = "getNetwork")

\* C19: becomeTenant returns a transaction only when the tenant it read is
\* the zero address, the transaction being becomeTenant() addressed to the
\* DAO with the rentalPrice it read as value; when the tenant it read is not
\* the zero address it ends as the client error "already rented" and
\* returns no transaction.
C19_TenantOnlyWhenVacant ==
    resp.op = "becomeTenant"
    => /\ resp.txs # <<>>
            => /\ chain.tenant = AddressZero
               /\ Len(resp.txs) = 1
               /\ resp.txs[1].to = resp.req.daoAddress
               /\ resp.txs[1].data = Encode("becomeTenant", <<>>)
               /\ resp.txs[1].value = ToString(chain.rentalPrice)
       /\ (ReadOk("currentTenant") /\ chain.tenant # AddressZero)
            => (resp.status = 400 /\ resp.txs = <<>>)

\* C20: a getUnlistApprovalTx that read a balance different from the total
\* supply ends as the client error "incomplete ownership"; one that read the
\* full balance and an allowance of at least the total supply returns no
\* transaction and says that the tokens are approved; one that read the full
\* balance and a smaller allowance returns, when it returns, exactly one
\* transaction, approve(daoAddress, totalSupply) addressed to the token.
C20_UnlistApproval ==
    (resp.op = "getUnlistApprovalTx" /\ ReadOk("balanceOf"))
    => /\ chain.bal # chain.supply
            => /\ resp.status = 400
               /\ Includes(resp.message, MsgOwnAll)
               /\ resp.txs = <<>>
       /\ (chain.bal = chain.supply /\ ReadOk("allowance")
             /\ chain.allowance >= chain.supply)
            => /\ resp.status = 200
               /\ resp.txs = <<>>
               /\ ~resp.body.needsApproval
               /\ resp.message = <<MsgAlreadyApproved>>
       /\ (chain.bal = chain.supply /\ chain.allowance < chain.supply
             /\ resp.status = 200)
            => /\ Len(resp.txs) = 1
               /\ resp.txs[1].to = TokenAddr
               /\ resp.txs[1].data =
                    Encode("approve", <<resp.req.daoAddress, ToString(chain.supply)>>)

\* C21: completeUnlist returns transactions only when the owner it read is
\* the caller, letter case aside, and the allowance it read is at least the
\* total supply it read; a request whose owner check or allowance check
\* failed returns no transaction.
C21_UnlistOnlyWhenAuthorized ==
    resp.op = "completeUnlist"
    => /\ resp.txs # <<>>
            => /\ toLowerCase(chain.owner) = toLowerCase(resp.req.userAddress)
               /\ chain.allowance >= chain.supply
               /\ ReadOk("owner") /\ ReadOk("allowance") /\ ReadOk("totalSupply")
       /\ (ReadOk("owner") /\ toLowerCase(chain.owner) # toLowerCase(resp.req.userAddress))
            => (resp.txs = <<>> /\ Includes(resp.message, MsgOnlyOwner))
       /\ (ReadOk("allowance") /\ chain.allowance < chain.supply)
            => (resp.txs = <<>> /\ Includes(resp.message, MsgApproveFirst))

\* C21's case: the batch returned to a caller whose address is the owner's
\* in another letter case.
C21_Witness ==
    /\ resp.op = "completeUnlist"
    /\ Len(resp.txs) = 2
    /\ chain.owner # resp.req.userAddress
    /\ chain.allowance = chain.supply

\* C23: a voteOnProposal that succeeds shows as voting weight the balance
\* times the scale, divided by the total supply and rounded down, as a
\* percentage of the scale; its transaction data is vote(inFavor) and holds
\* nothing else.
C23_VoterWeight ==
    (resp.op = "voteOnProposal" /\ resp.status = 200)
    => LET weight == (chain.bal * chain.percentageDecimals) \div chain.supply
       IN  /\ ReadOk("totalSupply") /\ ReadOk("PERCENTAGE_DECIMALS")
           /\ resp.body.votingWeight = <<FDiv(weight * 100, chain.percentageDecimals), "%">>
           /\ resp.txs[1].data = Encode("vote", <<resp.req.inFavor>>)
           /\ resp.txs[1].value = NoValue

\* C23's case: 1 token of 2 on a scale of 3 weighs 1 of 3, shown as a third.
C23_Witness ==
    /\ resp.op = "voteOnProposal"
    /\ resp.status = 200
    /\ chain.bal = 1 /\ chain.supply = 2 /\ chain.percentageDecimals = 3
    /\ resp.body.votingWeight = <<FDiv(100, 3), "%">>

CreateOrder == <<"publish", "estimateGas", "getGasPrice", "getTransactionCount",
                 "getNetwork">>

\* C24: createListing reads no contract state; it publishes the metadata JSON
\* (name, instanceId, image, cpu, memory, location) first, encodes
\* createListing for the Marketplace after that, and only then estimates gas
\* and reads gas price, nonce and chain id; when publishing fails, no ledger
\* call has been made.
C24_CreateOrder ==
    (resp.op = "createListing" /\ resp.calls # <<>>) =>
        /\ Len(resp.calls) <= Len(CreateOrder)
        /\ \A i \in DOMAIN resp.calls :
              resp.calls[i] = CreateOrder[i] /\ resp.calls[i] \notin LedgerReads
        /\ resp.published = hardwareMetadata(resp.req)
        /\ DOMAIN resp.published =
              {"name", "instanceId", "image", "cpu", "memory", "location"}
        /\ (Raised(resp.thrown) /\ Last(resp.calls) = "publish") =>
              \A i \in DOMAIN resp.calls : resp.calls[i] \notin GasCalls
        /\ resp.status = 200 =>
              /\ resp.calls = CreateOrder
              /\ resp.txs[1].to = MarketplaceAddr
              /\ resp.txs[1].data.fn = "createListing"

C24_Witness ==
    /\ resp.op = "createListing"
    /\ resp.thrown = NetworkError
    /\ resp.calls = <<"publish">>

\* C26 as stated: completeUnlist returns its batch only on a ledger state
\* where the caller holds the whole supply, one on which getUnlistApprovalTx
\* does not fail its full-ownership check.
C26_UnlistOnlyFullHolder ==
    (resp.op = "completeUnlist" /\ resp.status = 200)
    => /\ chain.bal = chain.supply
       /\ ~Includes(getUnlistApprovalTx(resp.req, chain, NoFault).message, MsgOwnAll)

\* C26, amended: completeUnlist never reads the caller's balance, and returns
\* its batch whatever that balance is; on the ledger state of a returned
\* batch getUnlistApprovalTx answers "no approval needed" when the caller
\* holds the whole supply and fails its full-ownership check otherwise.
C26_UnlistWithoutBalanceRead ==
    resp.op = "completeUnlist"
    => /\ \A i \in DOMAIN resp.calls : resp.calls[i] # "balanceOf"
       /\ resp.status = 200
            => LET step1 == getUnlistApprovalTx(resp.req, chain, NoFault)
               IN  IF chain.bal = chain.supply
                   THEN /\ step1.status = 200
                        /\ step1.txs = <<>>
                        /\ step1.body.needsApproval = FALSE
                   ELSE /\ step1.txs = <<>>
                        /\ Includes(step1.message, MsgOwnAll)

C26_Witness ==
    /\ resp.op = "completeUnlist"
    /\ Len(resp.txs) = 2
    /\ chain.bal < chain.supply

(***************************************************************************)
(* The symbol derivation on its own: a name is derived from, then the      *)
(* symbols are derived from again.                                         *)
(***************************************************************************)
\* createListing computes nftSymbol and tokenSymbol from the hardware name.
DeriveSymbols ==
    /\ sym.phase = "named"
    /\ sym' = [phase |-> "derived", name |-> sym.name,
               nftSymbol |-> deriveSymbol(sym.name, NFT),
               tokenSymbol |-> deriveSymbol(sym.name, TKN)]
    /\ UNCHANGED <<chain, resp, cls, mkt, agg, money, run>>

\* The derived symbols are given to the derivation again, as names.
DeriveAgain ==
    /\ sym.phase = "derived"
    /\ sym' = [phase |-> "rederived", name |-> sym.name,
               nftSymbol |-> sym.nftSymbol,
               tokenSymbol |-> sym.tokenSymbol,
               nftAgain |-> deriveSymbol(sym.nftSymbol, NFT),
               tokenAgain |-> deriveSymbol(sym.tokenSymbol, TKN)]
    /\ UNCHANGED <<chain, resp, cls, mkt, agg, money, run>>

InitSymbols ==
    /\ chain = BaseChain
    /\ resp = NoResp
    /\ run = NoRun
    /\ sym \in {[phase |-> "named", name |-> n] : n \in HardwareNames}
    /\ cls = NoCls /\ mkt = NoMkt /\ agg = NoAgg /\ money = NoMoney

NextSymbols == DeriveSymbols \/ DeriveAgain

SpecSymbols == InitSymbols /\ [][NextSymbols]_vars

AlnumCount(name) == Len(StripNonAlnum(name))

\* The specified order: strip, case-fold to upper, truncate, append.
SymbolAsSpecified(name, suffix) ==
    substring(toUpperCase(StripNonAlnum(name)), 0, SymbolPrefixLen) \o suffix

\* C9: both symbols are the stripped, upper-cased name cut to five characters
\* followed by the suffix; a name with k < 5 alphanumeric characters gives
\* k characters and the suffix, nothing in between.
C9_SymbolDerivation ==
    sym.phase = "derived"
    => LET k == IF AlnumCount(sym.name) < SymbolPrefixLen
                THEN AlnumCount(sym.name) ELSE SymbolPrefixLen
       IN  /\ sym.nftSymbol = SymbolAsSpecified(sym.name, NFT)
           /\ sym.tokenSymbol = SymbolAsSpecified(sym.name, TKN)
           /\ Len(sym.nftSymbol) = k + Len(NFT)
           /\ SubSeq(sym.nftSymbol, k + 1, k + Len(NFT)) = NFT
           /\ SubSeq(sym.tokenSymbol, k + 1, k + Len(TKN)) = TKN
           /\ \A i \in 1..k : IsUpper(sym.nftSymbol[i]) \/ IsDigit(sym.nftSymbol[i])

\* C9's case: a name of mixed case with a space and "ß" in its first five
\* characters and fewer than five alphanumeric characters.
C9_Witness ==
    /\ sym.phase = "derived"
    /\ sym.name = <<97, 32, 223, 90, 55>>
    /\ sym.nftSymbol = <<65, 90, 55>> \o NFT

\* C10 as stated: deriving from a derived symbol gives that symbol back, for
\* every name.
C10_Idempotent ==
    sym.phase = "rederived"
    => (sym.nftAgain = sym.nftSymbol /\ sym.tokenAgain = sym.tokenSymbol)

\* C10 amended: deriving from a derived symbol gives that symbol back exactly
\* for names with at least five alphanumeric characters; for a shorter name
\* the second derivation gives a different, longer symbol.
C10_IdempotentFromFive ==
    sym.phase = "rederived"
    => /\ (sym.nftAgain = sym.nftSymbol) <=> (AlnumCount(sym.name) >= SymbolPrefixLen)
       /\ (sym.tokenAgain = sym.tokenSymbol) <=> (AlnumCount(sym.name) >= SymbolPrefixLen)
       /\ AlnumCount(sym.name) < SymbolPrefixLen
            => Len(sym.nftAgain) > Len(sym.nftSymbol)

\* C10's case: a name with six alphanumeric characters, derived twice.
C10_Witness ==
    /\ sym.phase = "rederived"
    /\ AlnumCount(sym.name) = 6
    /\ sym.nftAgain = sym.nftSymbol

(***************************************************************************)
(* The classification on its own: a tally is given, a status returned.    *)
(***************************************************************************)
\* Scales explored in full, the scale of the documented examples with the
\* values around its thresholds, and a scale of basis points.
CentValues == {0, 10, 20, 49, 50, 51, 60, 100}
BasisPointValues == {0, 3599, 6401, 10000}

ClassifyInputs ==
    {[votesFor |-> f, votesAgainst |-> a, threshold |-> t, decimals |-> d] :
        f \in 0..MaxScale, a \in 0..MaxScale, t \in 0..MaxScale, d \in 1..MaxScale}

ProposalTallies ==
    {q \in ClassifyInputs :
        q.votesFor <= q.decimals /\ q.votesAgainst <= q.decimals /\ q.threshold <= q.decimals}
    \cup
    {[votesFor |-> f, votesAgainst |-> a, threshold |-> t, decimals |-> 100] :
        f \in CentValues, a \in CentValues, t \in CentValues}
    \cup
    {[votesFor |-> f, votesAgainst |-> a, threshold |-> t, decimals |-> 10000] :
        f \in BasisPointValues, a \in BasisPointValues, t \in BasisPointValues}

GetProposalStatus ==
    /\ cls.phase = "asked"
    /\ cls' = [phase |-> "answered", args |-> cls.args,
               status |-> getProposalStatus(cls.args.votesFor, cls.args.votesAgainst,
                                            cls.args.threshold, cls.args.decimals)]
    /\ UNCHANGED <<chain, resp, sym, mkt, agg, money, run>>

InitClassify ==
    /\ chain = BaseChain
    /\ resp = NoResp
    /\ run = NoRun
    /\ cls \in {[phase |-> "asked", args |-> q] : q \in ProposalTallies}
    /\ sym = NoSym /\ mkt = NoMkt /\ agg = NoAgg /\ money = NoMoney

NextClassify == GetProposalStatus

SpecClassify == InitClassify /\ [][NextClassify]_vars

\* The classification on the common scale, in whole numbers.
ClassifyReference(votesFor, votesAgainst, threshold, decimals) ==
    IF votesFor >= threshold THEN "Passing"
    ELSE IF votesAgainst > decimals - threshold THEN "Failing"
    ELSE "In Progress"

\* C4: the status getProposalStatus returns is the whole-number
\* classification: Passing when votesFor >= threshold, otherwise Failing when
\* votesAgainst > decimals - threshold, otherwise In Progress.
C4_ClassificationIsReference ==
    cls.phase = "answered"
    => cls.status = ClassifyReference(cls.args.votesFor, cls.args.votesAgainst,
                                      cls.args.threshold, cls.args.decimals)

StatusLabels == {"Passing", "Failing", "In Progress"}

\* getProposalStatus with its two checks in the other order.
getProposalStatus_FailingFirst(votesFor, votesAgainst, threshold, decimals) ==
    LET forPercentage == Percentage(votesFor, decimals)
        againstPercentage == Percentage(votesAgainst, decimals)
        thresholdPercentage == Percentage(threshold, decimals)
    IN  IF Less(FSub(100, thresholdPercentage), againstPercentage) THEN "Failing"
        ELSE IF ~Less(forPercentage, thresholdPercentage) THEN "Passing"
        ELSE "In Progress"

\* C28: getProposalStatus answers with one of the three labels, and for a
\* tally with votesFor + votesAgainst <= decimals its Passing check and its
\* Failing check do not both hold: taking the checks in the other order
\* gives the same answer.
C28_ChecksExclusive ==
    cls.phase = "answered"
    => /\ cls.status \in StatusLabels
       /\ cls.args.votesFor + cls.args.votesAgainst <= cls.args.decimals
            => cls.status = getProposalStatus_FailingFirst(cls.args.votesFor,
                                cls.args.votesAgainst, cls.args.threshold,
                                cls.args.decimals)


(***************************************************************************)
(* getCurrentProposal (part_002:997-1061): the DAO's proposal, threshold   *)
(* and scale are read and shown as percentages, in double arithmetic.      *)
(***************************************************************************)
\* The digits right of position i of a are a smaller number than those of b.
SuffixLess(a, b, i) ==
    \E j \in (i + 1)..Len(a) : a[j] < b[j] /\ \A k \in (i + 1)..(j - 1) : a[k] = b[k]

\* a - b in double arithmetic, for doubles a >= b: digit by digit with the
\* borrow from the right, then rounded.
FDiff(a, b) ==
    RoundToDouble([i \in DOMAIN a |->
                      (2 + a[i] - b[i] - (IF SuffixLess(a, b, i) THEN 1 ELSE 0)) % 2],
                  FALSE)

\* Math.max(0, a - b)
MaxZeroDiff(a, b) == IF Less(b, a) THEN FDiff(a, b) ELSE FromInt(0)

\* A getCurrentProposal whose percentages are taken on a scale of 100.
ProposalView_FixedScale(p, c) ==
    [ active |-> TRUE,
      proposedPrice |-> formatEther(p.proposedPrice),
      currentPrice |-> formatEther(c.rentalPrice),
      votesFor |-> Percentage(p.votesFor, 100),
      votesAgainst |-> Percentage(p.votesAgainst, 100),
      voteThreshold |-> Percentage(p.threshold, 100),
      remainingNeeded |-> MaxZeroDiff(Percentage(p.threshold, 100),
                                      Percentage(p.votesFor, 100)),
      status |-> getProposalStatus(p.votesFor, p.votesAgainst, p.threshold, p.decimals) ]

\* The body returned for an active proposal (part_002:1030-1052).
ProposalView(p, c) ==
    [ active |-> TRUE,
      proposedPrice |-> formatEther(p.proposedPrice),
      currentPrice |-> formatEther(c.rentalPrice),
      votesFor |-> Percentage(p.votesFor, p.decimals),
      votesAgainst |-> Percentage(p.votesAgainst, p.decimals),
      voteThreshold |-> Percentage(p.threshold, p.decimals),
      remainingNeeded |-> MaxZeroDiff(Percentage(p.threshold, p.decimals),
                                      Percentage(p.votesFor, p.decimals)),
      status |-> getProposalStatus(p.votesFor, p.votesAgainst, p.threshold, p.decimals) ]

ProposalSteps ==
    << Read("currentProposal"), Read("rentalPrice"),
       Read("VOTE_THRESHOLD"), Read("PERCENTAGE_DECIMALS") >>

\* p is the DAO as the reads find it: the proposal, the threshold, the scale.
getCurrentProposal(daoAddress, p, c, flt) ==
    IF ~Truthy(daoAddress)
    THEN [phase |-> "failed", dao |-> p, calls |-> <<>>,
          error |-> BadRequest(<<"DAO address is required">>)]
    ELSE LET r == Run(ProposalSteps, flt)
         IN  IF Raised(r.thrown)
             THEN [phase |-> "failed", dao |-> p, calls |-> r.calls,
                   error |-> InternalServerError(
                                Wrap("Failed to get proposal information: ", r.thrown))]
             ELSE IF ~p.isActive
             THEN [phase |-> "viewed", dao |-> p, calls |-> r.calls,
                   view |-> [active |-> FALSE,
                             message |-> "No active rental price proposal"]]
             ELSE [phase |-> "viewed", dao |-> p, calls |-> r.calls,
                   view |-> ProposalView(p, c)]

\* The DAOs a proposal is read from: every tally, with and without an
\* active proposal.
ProposalDaos ==
    {[isActive |-> act, proposedPrice |-> 1, votesFor |-> q.votesFor,
      votesAgainst |-> q.votesAgainst, threshold |-> q.threshold,
      decimals |-> q.decimals] : act \in BOOLEAN, q \in ProposalTallies}

GetCurrentProposal ==
    /\ cls.phase = "stored"
    /\ \E daoAddress \in DaoInputs : \E flt \in Faults(Len(ProposalSteps)) :
          cls' = getCurrentProposal(daoAddress, cls.dao, chain, flt)
    /\ UNCHANGED <<chain, resp, sym, mkt, agg, money, run>>

InitProposal ==
    /\ chain = BaseChain
    /\ resp = NoResp
    /\ run = NoRun
    /\ cls \in {[phase |-> "stored", dao |-> p] : p \in ProposalDaos}
    /\ sym = NoSym /\ mkt = NoMkt /\ agg = NoAgg /\ money = NoMoney

NextProposal == GetCurrentProposal

SpecProposal == InitProposal /\ [][NextProposal]_vars

ActiveView == cls.phase = "viewed" /\ cls.view.active

\* C22: in the view of an active proposal, remainingNeeded is the greater of
\* zero and voteThreshold - votesFor as the view shows them, percentages on
\* the scale read from the DAO: it is zero from the threshold on, and where
\* both percentages are whole numbers it is their whole difference.
C22_RemainingNeeded ==
    ActiveView
    => LET p == cls.dao
           v == cls.view
       IN  /\ \E i \in DOMAIN cls.calls : cls.calls[i] = "PERCENTAGE_DECIMALS"
           /\ v.remainingNeeded = MaxZeroDiff(v.voteThreshold, v.votesFor)
           /\ ~Less(v.remainingNeeded, FromInt(0))
           /\ (v.remainingNeeded = FromInt(0)) <=> (p.votesFor >= p.threshold)
           /\ ((p.votesFor * 100) % p.decimals = 0 /\ (p.threshold * 100) % p.decimals = 0
                 /\ p.votesFor <= p.threshold)
                => v.remainingNeeded =
                     FromInt(((p.threshold - p.votesFor) * 100) \div p.decimals)

\* C22's case: on a scale of 7, a threshold of 7 and 3 votes for leave a
\* positive remainder that a scale of 100 would not give.
C22_Witness ==
    /\ ActiveView
    /\ cls.dao.decimals = 7 /\ cls.dao.threshold = 7 /\ cls.dao.votesFor = 3
    /\ Less(FromInt(57), cls.view.remainingNeeded)
    /\ Less(cls.view.remainingNeeded, FromInt(58))

\* C29: in the view of an active proposal the status is Passing exactly when
\* remainingNeeded is zero, and with a status of Failing or In Progress
\* remainingNeeded is above zero.
C29_PassingIffNothingNeeded ==
    ActiveView
    => /\ (cls.view.status = "Passing") <=> (cls.view.remainingNeeded = FromInt(0))
       /\ cls.view.status \in {"Failing", "In Progress"}
            => Less(FromInt(0), cls.view.remainingNeeded)

\* C29's case: votes for at the threshold on a scale of 3, where the two
\* percentages are the same rounded quotient.
C29_Witness ==
    /\ ActiveView
    /\ cls.dao.decimals = 3 /\ cls.dao.threshold = 2 /\ cls.dao.votesFor = 2
    /\ cls.view.status = "Passing"
    /\ cls.view.remainingNeeded = FromInt(0)


(***************************************************************************)
(* getListing: the registry is enumerated, every DAO is resolved by its    *)
(* own task, the tasks complete in any order, and the results, kept in     *)
(* enumeration order, are filtered and sorted.                             *)
(***************************************************************************)
\* The DAOs a registry can hold, as the ledger writes them (mixed case).
DaoPool ==
    { <<48, 120, 66, 50>>,      \* "0xB2"
      <<48, 120, 97, 49>>,      \* "0xa1"
      <<48, 120, 68, 52>>,      \* "0xD4"
      <<48, 120, 99, 51>> }     \* "0xc3"

\* What resolving one DAO meets: every read and the fetch succeed and the
\* content is a listing object ("ok"); a contract read reverts ("revert");
\* the metadata fetch fails ("unreachable"); the fetch succeeds with content
\* that is not JSON, which axios hands over as text ("text"); the fetch
\* succeeds with a JSON object that has none of the listing fields ("bare").
DaoConditions == {"ok", "revert", "unreachable", "text", "bare"}

\* Metadata can also be a listing object that has keys named daoAddress,
\* tokenPrice and rentalPrice of its own ("shadow").
ShadowConditions == {"ok", "shadow", "unreachable"}

\* tokenPrice() and rentalPrice() of each DAO, in wei.
DaoLedger(daoAddress) ==
    CASE daoAddress = <<48, 120, 66, 50>> -> [tokenPrice |-> 1, rentalPrice |-> 2]
      [] daoAddress = <<48, 120, 97, 49>> -> [tokenPrice |-> 2, rentalPrice |-> 1]
      [] daoAddress = <<48, 120, 68, 52>> -> [tokenPrice |-> 2, rentalPrice |-> 2]
      [] OTHER -> [tokenPrice |-> 1, rentalPrice |-> 1]

Range(q) == {q[i] : i \in DOMAIN q}

Registries ==
    {q \in SeqsUpTo(DaoPool, MaxDaos) : \A i, j \in DOMAIN q : i # j => q[i] # q[j]}

Markets ==
    {[up |-> FALSE, registry |-> <<>>, daos |-> <<>>]}
    \cup
    {[up |-> TRUE, registry |-> q, daos |-> d] :
        q \in Registries, d \in UNION {[Range(r) -> DaoConditions] : r \in Registries}}

ShadowMarkets ==
    {[up |-> FALSE, registry |-> <<>>, daos |-> <<>>]}
    \cup
    {[up |-> TRUE, registry |-> q, daos |-> d] :
        q \in Registries, d \in UNION {[Range(r) -> ShadowConditions] : r \in Registries}}

\* response.data of the metadata fetch: a parsed object, or the text as it
\* came when it does not parse.
MetadataOf(condition) ==
    CASE condition = "ok" ->
            [kind |-> "object",
             fields |-> [name |-> "rig", image |-> "ipfs://image", cpu |-> "8",
                         memory |-> "16", location |-> "eu"]]
      [] condition = "bare" ->
            [kind |-> "object", fields |-> [error |-> "not found"]]
      [] condition = "text" ->
            [kind |-> "string", chars |-> <<"n", "o">>]
      [] condition = "shadow" ->
            [kind |-> "object",
             fields |-> [name |-> "rig", daoAddress |-> <<48, 120, 48, 48>>,   \* "0x00"
                         tokenPrice |-> formatEther(9),
                         rentalPrice |-> formatEther(9)]]

\* { ...metadata }: the own enumerable properties of the value; for a string
\* they are its characters under their indices.
Spread(metadata) ==
    IF metadata.kind = "string"
    THEN [k \in {ToString(i - 1) : i \in DOMAIN metadata.chars} |->
             metadata.chars[CHOOSE i \in DOMAIN metadata.chars : ToString(i - 1) = k]]
    ELSE metadata.fields

Null == [isNull |-> TRUE]
IsNull(x) == "isNull" \in DOMAIN x

\* A task whose listing is { daoAddress, tokenPrice, rentalPrice, ...metadata }.
ResolveListing_MetadataLast(daoAddress, condition) ==
    IF condition \in {"revert", "unreachable"} THEN Null
    ELSE Spread(MetadataOf(condition))
         @@ [daoAddress |-> daoAddress,
             tokenPrice |-> formatEther(DaoLedger(daoAddress).tokenPrice),
             rentalPrice |-> formatEther(DaoLedger(daoAddress).rentalPrice)]

\* A task that returns the listing without metadata when something throws.
ResolveListing_NoCatch(daoAddress, condition) ==
    [daoAddress |-> daoAddress,
     tokenPrice |-> formatEther(DaoLedger(daoAddress).tokenPrice),
     rentalPrice |-> formatEther(DaoLedger(daoAddress).rentalPrice)]
    @@ (IF condition \in {"revert", "unreachable"} THEN <<>>
        ELSE Spread(MetadataOf(condition)))

\* The task of one DAO: null when anything in it throws, else the listing.
ResolveListing(daoAddress, condition) ==
    IF condition \in {"revert", "unreachable"} THEN Null
    ELSE [daoAddress |-> daoAddress,
          tokenPrice |-> formatEther(DaoLedger(daoAddress).tokenPrice),
          rentalPrice |-> formatEther(DaoLedger(daoAddress).rentalPrice)]
         @@ Spread(MetadataOf(condition))

\* p before q, character by character; a proper prefix comes first.
SeqLess(p, q) ==
    \/ \E i \in DOMAIN p \cap DOMAIN q :
          p[i] < q[i] /\ \A j \in 1..(i - 1) : p[j] = q[j]
    \/ Len(p) < Len(q) /\ \A j \in DOMAIN p : p[j] = q[j]

\* String.prototype.localeCompare on addresses: digits before letters and
\* letters in alphabetical order whatever their case; between strings equal
\* up to case, lower case first at the first difference.
localeCompare(a, b) ==
    IF SeqLess(toLowerCase(a), toLowerCase(b)) THEN -1
    ELSE IF SeqLess(toLowerCase(b), toLowerCase(a)) THEN 1
    ELSE IF a = b THEN 0
    ELSE LET i == CHOOSE k \in DOMAIN a : a[k] # b[k] /\ \A j \in 1..(k - 1) : a[j] = b[j]
         IN  IF IsLower(a[i]) THEN -1 ELSE 1

\* A comparator that takes the characters by their codes.
CompareListings_Ordinal(a, b) ==
    IF SeqLess(a.daoAddress, b.daoAddress) THEN -1
    ELSE IF SeqLess(b.daoAddress, a.daoAddress) THEN 1 ELSE 0

\* (a, b) => a.daoAddress.localeCompare(b.daoAddress)
CompareListings(a, b) == localeCompare(a.daoAddress, b.daoAddress)

\* Array.prototype.sort with the comparator: a stable sort.
RECURSIVE InsertListing(_, _)
InsertListing(sorted, x) ==
    IF sorted = <<>> THEN <<x>>
    ELSE IF CompareListings(x, sorted[Len(sorted)]) < 0
    THEN Append(InsertListing(SubSeq(sorted, 1, Len(sorted) - 1), x), sorted[Len(sorted)])
    ELSE Append(sorted, x)

RECURSIVE SortListings(_)
SortListings(q) ==
    IF q = <<>> THEN <<>>
    ELSE InsertListing(SortListings(SubSeq(q, 1, Len(q) - 1)), q[Len(q)])

\* (listing) => listing !== null
KeepListing(x) == ~IsNull(x)

Pending == [pending |-> TRUE]

\* await marketplaceContract.getListings(), then one task per address; a
\* failure here is the only one that reaches the outer catch.
StartListing ==
    /\ agg.phase = "idle"
    /\ agg' = IF mkt.up
              THEN [phase |-> "resolving",
                    results |-> [i \in DOMAIN mkt.registry |-> Pending]]
              ELSE [phase |-> "failed",
                    error |-> InternalServerError(Wrap("Failed to get listings: ",
                                                       NetworkError))]
    /\ UNCHANGED <<chain, resp, sym, cls, mkt, money, run>>

\* One task settles; Promise.all keeps its value at the task's position.
ResolveDao ==
    /\ agg.phase = "resolving"
    /\ \E i \in DOMAIN agg.results :
          /\ "pending" \in DOMAIN agg.results[i]
          /\ agg' = [agg EXCEPT !.results[i] =
                        ResolveListing(mkt.registry[i], mkt.daos[mkt.registry[i]])]
    /\ UNCHANGED <<chain, resp, sym, cls, mkt, money, run>>

\* All tasks settled: filter, sort, return.
FinishListing ==
    /\ agg.phase = "resolving"
    /\ \A i \in DOMAIN agg.results : "pending" \notin DOMAIN agg.results[i]
    /\ agg' = [phase |-> "returned",
               listings |-> SortListings(SelectSeq(agg.results, KeepListing))]
    /\ UNCHANGED <<chain, resp, sym, cls, mkt, money, run>>

InitListing ==
    /\ chain = BaseChain
    /\ resp = NoResp
    /\ run = NoRun
    /\ sym = NoSym /\ cls = NoCls /\ money = NoMoney
    /\ mkt \in {m \in Markets : DOMAIN m.daos = Range(m.registry)}
    /\ agg = [phase |-> "idle"]

NextListing == StartListing \/ ResolveDao \/ FinishListing

SpecListing == InitListing /\ [][NextListing]_vars

(***************************************************************************)
(* Claims about getListing.                                                *)
(***************************************************************************)
\* The DAOs of the registry whose task threw: a read reverted or the fetch
\* failed.
FailedDaos == {a \in Range(mkt.registry) : mkt.daos[a] \in {"revert", "unreachable"}}

ListingsFor(a) == {i \in DOMAIN agg.listings : agg.listings[i].daoAddress = a}

\* C6: getListing raises only when the enumeration fails; otherwise it
\* returns, with no listing for a DAO whose resolution failed, exactly one
\* for a DAO resolved to a listing object, and none for any other address.
C6_FailedEntriesDropped ==
    /\ agg.phase = "failed" => ~mkt.up
    /\ agg.phase \in {"resolving", "returned"} => mkt.up
    /\ agg.phase = "returned" =>
          /\ \A a \in FailedDaos : ListingsFor(a) = {}
          /\ \A a \in Range(mkt.registry) :
                mkt.daos[a] = "ok" => Cardinality(ListingsFor(a)) = 1
          /\ \A i \in DOMAIN agg.listings :
                agg.listings[i].daoAddress \in Range(mkt.registry) \ FailedDaos
          /\ Len(agg.listings) = Cardinality(Range(mkt.registry) \ FailedDaos)

\* C6's case: three DAOs discovered, the fetch of the second one's metadata
\* fails, two listings returned.
C6_Witness ==
    /\ agg.phase = "returned"
    /\ Len(mkt.registry) = 3
    /\ mkt.daos[mkt.registry[1]] = "ok"
    /\ mkt.daos[mkt.registry[2]] = "unreachable"
    /\ mkt.daos[mkt.registry[3]] = "ok"
    /\ Len(agg.listings) = 2

\* The one arrangement of the addresses S that localeCompare puts in
\* strictly ascending order.
Ascending(S) ==
    CHOOSE q \in [1..Cardinality(S) -> S] :
        \A i, j \in 1..Cardinality(S) : i < j => localeCompare(q[i], q[j]) < 0

\* C7: the listings returned ascend by daoAddress under localeCompare, and
\* the sequence is determined by the set of registered addresses and what
\* each resolves to: the order the registry gives them in and the order the
\* tasks settle in do not show.
C7_SortedWhateverTheOrder ==
    agg.phase = "returned" =>
        LET order == Ascending(Range(mkt.registry) \ FailedDaos)
        IN  /\ \A i, j \in DOMAIN agg.listings :
                  i < j => localeCompare(agg.listings[i].daoAddress,
                                         agg.listings[j].daoAddress) < 0
            /\ Len(agg.listings) = Len(order)
            /\ \A i \in DOMAIN agg.listings :
                  agg.listings[i] = ResolveListing(order[i], mkt.daos[order[i]])

\* C7's case: the registry gives "0xD4", "0xB2", "0xa1", all resolve, and
\* the listings come back as "0xa1", "0xB2", "0xD4".
C7_Witness ==
    /\ agg.phase = "returned"
    /\ mkt.registry = << <<48, 120, 68, 52>>, <<48, 120, 66, 50>>, <<48, 120, 97, 49>> >>
    /\ Len(agg.listings) = 3
    /\ agg.listings[1].daoAddress = <<48, 120, 97, 49>>
    /\ agg.listings[2].daoAddress = <<48, 120, 66, 50>>
    /\ agg.listings[3].daoAddress = <<48, 120, 68, 52>>

\* C8: no listing is returned for a DAO whose metadata content is not a
\* listing object: text that is not JSON, or an object without the fields.
C8_MalformedMetadataDropped ==
    agg.phase = "returned" =>
        \A i \in DOMAIN agg.listings :
            mkt.daos[agg.listings[i].daoAddress] \notin {"text", "bare"}

InitShadow ==
    /\ chain = BaseChain
    /\ resp = NoResp
    /\ run = NoRun
    /\ sym = NoSym /\ cls = NoCls /\ money = NoMoney
    /\ mkt \in {m \in ShadowMarkets : DOMAIN m.daos = Range(m.registry)}
    /\ agg = [phase |-> "idle"]

SpecShadow == InitShadow /\ [][NextListing]_vars

\* C30: every listing getListing returns carries an address the Marketplace
\* enumerated in this request, and the tokenPrice and rentalPrice read from
\* that DAO, formatted in ether: keys of those names in the fetched
\* metadata do not show.
C30_LedgerValuesWin ==
    agg.phase = "returned" =>
        \A i \in DOMAIN agg.listings :
            LET l == agg.listings[i]
            IN  /\ l.daoAddress \in Range(mkt.registry)
                /\ l.tokenPrice = formatEther(DaoLedger(l.daoAddress).tokenPrice)
                /\ l.rentalPrice = formatEther(DaoLedger(l.daoAddress).rentalPrice)

\* C30's case: two DAOs with different prices, both serving metadata that
\* has the three keys.
C30_Witness ==
    /\ agg.phase = "returned"
    /\ Len(agg.listings) = 2
    /\ \A i \in DOMAIN agg.listings : mkt.daos[agg.listings[i].daoAddress] = "shadow"
    /\ agg.listings[1].tokenPrice # agg.listings[2].tokenPrice


(***************************************************************************)
(* Money fields.  A price enters as decimal ether text, is parsed into wei *)
(* (part_002:802-804) and, read back from the DAO, is formatted for        *)
(* display (part_002:1033-1034).                                           *)
(***************************************************************************)
WholeTexts ==
    { <<>>, Codes(<<0>>), Codes(<<1>>), Codes(<<7>>), Codes(<<0, 1>>), Codes(<<1, 0>>),
      Codes(<<1, 0, 0, 0, 0, 0, 0>>),
      Codes(<<1>> \o Zeros(EtherDecimals + 2)) }

FractionTexts ==
    { <<>>, <<46>>, <<46>> \o Codes(<<0>>), <<46>> \o Codes(<<5>>),
      <<46>> \o Codes(<<0, 5>>), <<46>> \o Codes(<<5, 0>>),
      <<46>> \o Codes(Zeros(EtherDecimals - 1) \o <<1>>),
      <<46>> \o Codes(Zeros(EtherDecimals) \o <<1>>),
      <<46>> \o Codes(<<1, 2, 3, 4, 5, 6, 7, 8, 9, 0, 1, 2, 3, 4, 5, 6, 7, 8>>) }

MoneyTexts == { w \o f : w \in WholeTexts, f \in FractionTexts }

\* The text is parsed into wei, or refused.
ParseMoney ==
    /\ money.phase = "text"
    /\ money' = IF ParseFault(money.x)
                THEN [phase |-> "refused", x |-> money.x]
                ELSE [phase |-> "wei", x |-> money.x, wei |-> parseEtherDigits(money.x)]
    /\ UNCHANGED <<chain, resp, sym, cls, mkt, agg, run>>

\* The wei amount is formatted for display.
FormatMoney ==
    /\ money.phase = "wei"
    /\ money' = [phase |-> "shown", x |-> money.x, wei |-> money.wei,
                 text |-> formatEtherCodes(money.wei)]
    /\ UNCHANGED <<chain, resp, sym, cls, mkt, agg, run>>

InitMoney ==
    /\ chain = BaseChain
    /\ resp = NoResp
    /\ run = NoRun
    /\ sym = NoSym /\ cls = NoCls /\ mkt = NoMkt /\ agg = NoAgg
    /\ money \in {[phase |-> "text", x |-> x] : x \in MoneyTexts}

NextMoney == ParseMoney \/ FormatMoney

SpecMoney == InitMoney /\ [][NextMoney]_vars

\* C11: every ether text the parser accepts is shown again, after parsing into
\* wei and formatting, as the same text.
C11_MoneyRoundTrip ==
    money.phase = "shown" => money.text = money.x


(***************************************************************************)
(* Requests in flight.  The service awaits one remote call at a time and   *)
(* serves several requests at once, so the calls of two requests           *)
(* interleave, and each value a request holds is the ledger's at the       *)
(* moment that call was answered.  Between two calls the caller may submit *)
(* an approve transaction a build has returned; the ledger takes it when   *)
(* its nonce is the account's next one.  The effect of the other           *)
(* transactions is the contracts' and is not taken here.                   *)
(***************************************************************************)
Slots == {1, 2}
FlightOps == {"getUnlistApprovalTx", "completeUnlist", "becomeTenant"}
FlightRequest == [userAddress |-> UserAddr, daoAddress |-> DaoAddr]
FlightChains == {c \in UnlistChains : c.nonce = 0}

StepsOf(op, req, c) ==
    CASE op = "getUnlistApprovalTx" -> UnlistApprovalSteps(req, c)
      [] op = "completeUnlist" -> CompleteUnlistSteps(req, c)
      [] OTHER -> TenantSteps(req, c)

Handle(op, req, c, flt) ==
    CASE op = "getUnlistApprovalTx" -> getUnlistApprovalTx(req, c, flt)
      [] op = "completeUnlist" -> completeUnlist(req, c, flt)
      [] OTHER -> becomeTenant(req, c, flt)

\* The ledger fields an awaited call returns.
FieldsOf(call) ==
    CASE call = "totalSupply" -> {"supply"}
      [] call = "balanceOf" -> {"bal"}
      [] call = "allowance" -> {"allowance"}
      [] call = "owner" -> {"owner"}
      [] call = "currentTenant" -> {"tenant"}
      [] call = "rentalPrice" -> {"rentalPrice"}
      [] call = "getTransactionCount" -> {"nonce"}
      [] call = "getGasPrice" -> {"gasPrice"}
      [] call = "getNetwork" -> {"chainId"}
      [] OTHER -> {}

\* What a request holds after `call` was answered from ledger state c.
Await(view, call, c) ==
    [f \in DOMAIN view |-> IF f \in FieldsOf(call) THEN c[f] ELSE view[f]]

\* token.approve(spender, amount) by the caller, as the ledger executes it.
AmountOf(text) == CHOOSE n \in 0..(MaxSupply + 1) : ToString(n) = text
Approved(c, tx) == [c EXCEPT !.allowance = AmountOf(tx.data.args[2]), !.nonce = @ + 1]

Running(i) == run[i].phase = "running"
Done(i) == run[i].phase = "done"

Start(i) ==
    /\ run[i].phase = "idle"
    /\ \A j \in Slots : j < i => run[j].phase # "idle"
    /\ \E op \in FlightOps :
         run' = [run EXCEPT ![i] =
                    [phase |-> "running", op |-> op, req |-> FlightRequest, pc |-> 0,
                     view |-> BaseChain, began |-> chain.nonce,
                     behind |-> {j \in Slots : Done(j)}]]
    /\ UNCHANGED <<chain, resp, sym, cls, mkt, agg, money>>

Advance(i) ==
    /\ Running(i)
    /\ LET r == run[i]
           pc == r.pc + 1
           view == Await(r.view, StepsOf(r.op, r.req, r.view)[pc].call, chain)
           steps == StepsOf(r.op, r.req, view)
           sofar == Run(SubSeq(steps, 1, pc), NoFault)
       IN  run' = [run EXCEPT ![i] =
                     IF Raised(sofar.thrown) \/ sofar.ret.returned \/ pc = Len(steps)
                     THEN [phase |-> "done", op |-> r.op, began |-> r.began,
                           behind |-> r.behind,
                           out |-> Handle(r.op, r.req, view, NoFault)]
                     ELSE [r EXCEPT !.pc = pc, !.view = view]]
    /\ UNCHANGED <<chain, resp, sym, cls, mkt, agg, money>>

\* The call being awaited fails: the ledger endpoint is not reachable.
Fail(i) ==
    /\ Running(i)
    /\ LET r == run[i]
       IN  run' = [run EXCEPT ![i] =
                     [phase |-> "done", op |-> r.op, began |-> r.began,
                      behind |-> r.behind,
                      out |-> Handle(r.op, r.req, r.view,
                                     [at |-> r.pc + 1, err |-> NetworkError])]]
    /\ UNCHANGED <<chain, resp, sym, cls, mkt, agg, money>>

Land(i) ==
    /\ Done(i)
    /\ run[i].out.txs # <<>>
    /\ LET tx == run[i].out.txs[1]
       IN  /\ tx.data.fn = "approve"
           /\ tx.nonce = chain.nonce
           /\ chain' = Approved(chain, tx)
    /\ UNCHANGED <<resp, sym, cls, mkt, agg, money, run>>

InitFlight ==
    /\ chain \in FlightChains
    /\ resp = NoResp
    /\ sym = NoSym /\ cls = NoCls /\ mkt = NoMkt /\ agg = NoAgg /\ money = NoMoney
    /\ run = [i \in Slots |-> [phase |-> "idle"]]

NextFlight == \E i \in Slots : Start(i) \/ Advance(i) \/ Fail(i) \/ Land(i)

SpecFlight == InitFlight /\ [][NextFlight]_vars

Built(i) == Done(i) /\ run[i].out.txs # <<>>

\* C25: two builds for the same sender, their calls interleaved in any way,
\* with no transaction of that sender landing from the start of the earlier
\* one on, carry the same nonce in their (first) transaction; so does a
\* single-transaction build issued after completeUnlist has returned.
C25_NoncesNotReserved ==
    \A i, j \in Slots :
        (Built(i) /\ Built(j) /\ run[i].began = chain.nonce /\ run[j].began = chain.nonce)
        => /\ run[i].out.txs[1].from = run[j].out.txs[1].from
           /\ run[i].out.txs[1].nonce = run[j].out.txs[1].nonce
           /\ run[i].out.txs[1].nonce = chain.nonce

\* C25's case: becomeTenant issued after completeUnlist returned its batch.
C25_Witness ==
    /\ Built(1) /\ Built(2)
    /\ run[1].op = "completeUnlist" /\ run[2].op = "becomeTenant"
    /\ 1 \in run[2].behind
    /\ run[2].out.txs[1].nonce = run[1].out.txs[1].nonce

\* C27: when the approve transaction getUnlistApprovalTx returned is the one
\* change the ledger has seen, a getUnlistApprovalTx issued afterwards
\* answers needsApproval = false without a transaction and a completeUnlist
\* issued afterwards does not fail its allowance check (every call they
\* await being answered).
C27_ApprovalThenUnlist ==
    \A i \in Slots :
        (Done(i) /\ run[i].began = 1 /\ chain.nonce = 1
            /\ run[i].out.thrown \notin RemoteFailures)
        => /\ run[i].op = "getUnlistApprovalTx"
                => /\ run[i].out.status = 200
                   /\ run[i].out.txs = <<>>
                   /\ run[i].out.body.needsApproval = FALSE
           /\ run[i].op = "completeUnlist"
                => /\ ~Includes(run[i].out.message, MsgApproveFirst)
                   /\ toLowerCase(chain.owner) = toLowerCase(FlightRequest.userAddress)
                        => Len(run[i].out.txs) = 2

C27_Witness ==
    /\ Done(1) /\ run[1].op = "getUnlistApprovalTx" /\ run[1].out.txs # <<>>
    /\ chain.nonce = 1 /\ chain.allowance = chain.supply
    /\ Done(2) /\ run[2].began = 1 /\ run[2].op = "getUnlistApprovalTx"
    /\ run[2].out.status = 200
    /\ run[2].out.body.needsApproval = FALSE

====
